---- MODULE Spec2Model ----
(***************************************************************************)
(* Game core of Hitzeflaute (PowerFlowGame): the message-driven Engine,    *)
(* the Referee rules and the Finance calculator, as a state machine whose  *)
(* steps are calls of Engine.handle_message on the latest game state.      *)
(*                                                                         *)
(* Money, prices and powers are exact integers here (the program uses      *)
(* floats); the solver behind MarketCouplingCalculator.run is an oracle    *)
(* whose result is chosen nondeterministically.                            *)
(***************************************************************************)
EXTENDS Integers, Sequences, FiniteSets, TLC

VARIABLES
    game_state,   \* the latest GameState value
    outbound,     \* the message list returned by the last handle_message call
    msg,          \* the message given to the last handle_message call
    err,          \* the exception the last call raised, or "none"
    budget,       \* number of handle_message calls the run may still make
    auctions,     \* number of DA_AUCTION conclusions that reached the solver
    stored,       \* the GameState value the game repository holds
    server        \* the session layer: registry, sockets, send tasks, frames written

vars == <<game_state, outbound, msg, err, budget, auctions, stored, server>>

----------------------------------------------------------------------------
(* Bounds *)

MaxSteps == 4        \* handle_message calls in a run of Spec
MaxPhaseSteps == 6   \* handle_message calls in a run of SpecPhases
MaxAuctions == 1     \* DA_AUCTION conclusions that reach the solver

----------------------------------------------------------------------------
(* Identifiers and enumerations *)

NPC == -1
Humans == {1, 2}
PlayerIds == Humans \cup {NPC}

CONSTRUCTION == 0
SNEAKY_TRICKS == 1
BIDDING == 2
DA_AUCTION == 3
Phase == {CONSTRUCTION, SNEAKY_TRICKS, BIDDING, DA_AUCTION}

GENERATOR == 0
LOAD == 1

Buses == {1, 2}
AssetIds == {1, 2, 3}
TransmissionIds == {1}

\* ids a request may name: the existing ones and one that does not exist
NoSuchId == -5
AssetIdInputs == AssetIds \cup {NoSuchId}
TransmissionIdInputs == TransmissionIds \cup {NoSuchId}

\* GameSettings of the modelled game
game_settings ==
    [initial_funds |-> 100, n_init_ice_cream |-> 1,
     min_bid_price |-> 0, max_bid_price |-> 50]

\* bid prices a request may carry: below range, affordable, unaffordable, above range
BidInputs == {-1, 2, 3, 51}

\* repository iteration order
PlayerOrder == <<1, 2, NPC>>
HumanOrder == <<1, 2>>
AssetOrder == <<1, 2, 3>>
TransmissionOrder == <<1>>

----------------------------------------------------------------------------
(* Phase *)

get_next(p) == (p + 1) % Cardinality(Phase)

----------------------------------------------------------------------------
(* PlayerRepo *)

human_player_ids(players) == SelectSeq(PlayerOrder, LAMBDA p : p # NPC)

get_currently_playing(players) == {p \in DOMAIN players : players[p].is_having_turn}

\* fault variant: finished while one player is still playing
are_all_players_finished_early(players) ==
    Cardinality(get_currently_playing(players)) <= 1

are_all_players_finished(players) == Cardinality(get_currently_playing(players)) = 0

_set_turn(players, ids, flag) ==
    [p \in DOMAIN players |->
        IF p \in ids THEN [players[p] EXCEPT !.is_having_turn = flag] ELSE players[p]]

end_turn(players, player_id) == _set_turn(players, {player_id}, FALSE)

start_all_turns(players) ==
    LET ids == human_player_ids(players)
    IN  _set_turn(players, {ids[i] : i \in DOMAIN ids}, TRUE)

add_money(players, player_id, amount) ==
    [players EXCEPT ![player_id].money = @ + amount]

\* fault variant: the amount is credited
subtract_money_credits(players, player_id, amount) ==
    [players EXCEPT ![player_id].money = @ + amount]

subtract_money(players, player_id, amount) ==
    [players EXCEPT ![player_id].money = @ - amount]

----------------------------------------------------------------------------
(* Messages *)

NoMessage == [kind |-> "None"]

EndTurn(p) == [kind |-> "EndTurn", player_id |-> p]

ConcludePhase(ph) == [kind |-> "ConcludePhase", phase |-> ph]

\* the WebSocket objects of a run and the player_id each asserts in its path
SessionIds == 1..3
SessionPlayer == <<1, 1, 2>>
NoSession == 0

\* the session layer when the server starts: ConnectionManager.__init__, no
\* socket accepted, no send task, no message handled
server_start ==
    [active_connections |-> [p \in Humans |-> NoSession],
     websocket |-> [s \in SessionIds |-> "new"],
     tasks |-> <<>>,
     sending |-> {},
     transport |-> [s \in SessionIds |-> <<>>],
     handled |-> <<>>]

\* what a handler call yields: the new state and the outbound list, or an exception
Return(gs, msgs) == [gs |-> gs, msgs |-> msgs, err |-> "none"]
Raise(gs, e) == [gs |-> gs, msgs |-> <<>>, err |-> e]

----------------------------------------------------------------------------
(* Initial state: BaseGameInitializer.create_new_game *)

_create_player_repo ==
    [p \in PlayerIds |->
        IF p = NPC
        THEN [money |-> 0, is_having_turn |-> FALSE, still_alive |-> TRUE]
        ELSE [money |-> game_settings.initial_funds, is_having_turn |-> FALSE,
              still_alive |-> TRUE]]

_create_asset_repo(npc_bid) ==
    [a \in AssetIds |->
        IF a \in Humans
        THEN [owner_player |-> a, asset_type |-> LOAD, bus |-> a,
              power_expected |-> 50, is_for_sale |-> FALSE,
              minimum_acquisition_price |-> 0,
              fixed_operating_cost |-> game_settings.initial_funds \div 20,
              marginal_cost |-> 0,
              bid_price |-> game_settings.initial_funds \div 2,
              is_freezer |-> TRUE, health |-> game_settings.n_init_ice_cream,
              is_active |-> TRUE]
        ELSE [owner_player |-> NPC, asset_type |-> GENERATOR, bus |-> 2,
              power_expected |-> 60, is_for_sale |-> TRUE,
              minimum_acquisition_price |-> game_settings.initial_funds \div 4,
              fixed_operating_cost |-> game_settings.initial_funds \div 20,
              marginal_cost |-> game_settings.initial_funds \div 20,
              bid_price |-> npc_bid,
              is_freezer |-> FALSE, health |-> 0,
              is_active |-> TRUE]]

_create_transmission_repo(price) ==
    [t \in TransmissionIds |->
        [owner_player |-> NPC, bus1 |-> 1, bus2 |-> 2, capacity |-> 10,
         health |-> 5, is_for_sale |-> TRUE,
         minimum_acquisition_price |-> price, is_active |-> TRUE]]

NoMarketCouplingResult ==
    [present |-> FALSE,
     bus_prices |-> [b \in Buses |-> 0],
     transmission_flows |-> [t \in TransmissionIds |-> 0],
     assets_dispatch |-> [a \in AssetIds |-> 0]]

create_new_game(npc_bid, price) ==
    [phase |-> CONSTRUCTION,
     round |-> 1,
     players |-> start_all_turns(_create_player_repo),
     assets |-> _create_asset_repo(npc_bid),
     transmission |-> _create_transmission_repo(price),
     market_coupling_result |-> NoMarketCouplingResult]

\* the values new_game draws at random, fixed for the modelled game
NpcBidDraws == {5}
LinePriceDraws == {100}

InitGame ==
    /\ \E npc_bid \in NpcBidDraws, price \in LinePriceDraws :
           game_state = create_new_game(npc_bid, price)
    /\ outbound = <<>>
    /\ msg = NoMessage
    /\ err = "none"
    /\ auctions = 0
    /\ stored = game_state
    /\ server = server_start

Init == InitGame /\ budget = MaxSteps

----------------------------------------------------------------------------
(* AssetRepo and TransmissionRepo *)

get_all_for_player(repo, player_id, only_active) ==
    {x \in DOMAIN repo :
        /\ repo[x].owner_player = player_id
        /\ (only_active => repo[x].is_active)}

\* fault variant: the item stays for sale
change_owner_keeps_for_sale(repo, id, new_owner) ==
    [repo EXCEPT ![id].owner_player = new_owner]

change_owner(repo, id, new_owner) ==
    [repo EXCEPT ![id].owner_player = new_owner, ![id].is_for_sale = FALSE]

update_bid_price(assets, asset_id, bid_price) ==
    [assets EXCEPT ![asset_id].bid_price = bid_price]

_decrease_health(assets, asset_id) ==
    IF assets[asset_id].health > 1
    THEN [assets EXCEPT ![asset_id].health = @ - 1]
    ELSE [assets EXCEPT ![asset_id].health = 0, ![asset_id].is_active = FALSE]

melt_ice_cream(assets, asset_id) == _decrease_health(assets, asset_id)

wear_asset(assets, asset_id) == _decrease_health(assets, asset_id)

\* AssetRepo.batch_deactivate is called by the Referee; its body is not in the sources
batch_deactivate(assets, ids) ==
    [a \in DOMAIN assets |->
        IF a \in ids THEN [assets[a] EXCEPT !.is_active = FALSE] ELSE assets[a]]

\* TransmissionRepo.wear_transmission is called by the Referee; its body is not in the sources
wear_transmission(transmission, tid) ==
    IF transmission[tid].health > 1
    THEN [transmission EXCEPT ![tid].health = @ - 1]
    ELSE [transmission EXCEPT ![tid].health = 0, ![tid].is_active = FALSE]

\* fault variant: the line stays as it was
open_line_keeps_state(transmission, tid) == transmission

open_line(transmission, tid) == [transmission EXCEPT ![tid].is_active = FALSE]

close_line(transmission, tid) == [transmission EXCEPT ![tid].is_active = TRUE]

is_open(line) == ~line.is_active

is_closed(line) == line.is_active

cashflow_sign(asset) == IF asset.asset_type = GENERATOR THEN 1 ELSE -1

----------------------------------------------------------------------------
(* Helpers over sets and sequences *)

Abs(x) == IF x < 0 THEN -x ELSE x

RECURSIVE Sum(_, _)
Sum(f, S) ==
    IF S = {} THEN 0
    ELSE LET x == CHOOSE y \in S : TRUE IN f[x] + Sum(f, S \ {x})

Range(s) == {s[i] : i \in DOMAIN s}

----------------------------------------------------------------------------
(* Referee *)

AssetPurchase(id) == [type |-> "asset", id |-> id]
TransmissionPurchase(id) == [type |-> "transmission", id |-> id]

BuyResponse(player_id, success, message, purchase_id) ==
    [kind |-> "BuyResponse", player_id |-> player_id, success |-> success,
     message |-> message, purchase_id |-> purchase_id]

\* fault variant: an item that is not for sale can be bought
validate_purchase_ignores_for_sale(gs, player_id, purchase_id) ==
    LET purchase_repo == IF purchase_id.type = "asset" THEN gs.assets ELSE gs.transmission
        player == gs.players[player_id]
        make_failed_response(text) == <<BuyResponse(player_id, FALSE, text, purchase_id)>>
    IN  IF purchase_id.id \notin DOMAIN purchase_repo
        THEN make_failed_response("does not exist")
        ELSE IF player.money < purchase_repo[purchase_id.id].minimum_acquisition_price
        THEN make_failed_response("cannot afford")
        ELSE <<>>

\* fault variant: money equal to the price is refused
validate_purchase_strict(gs, player_id, purchase_id) ==
    LET purchase_repo == IF purchase_id.type = "asset" THEN gs.assets ELSE gs.transmission
        player == gs.players[player_id]
        make_failed_response(text) == <<BuyResponse(player_id, FALSE, text, purchase_id)>>
    IN  IF purchase_id.id \notin DOMAIN purchase_repo
        THEN make_failed_response("does not exist")
        ELSE IF ~purchase_repo[purchase_id.id].is_for_sale
        THEN make_failed_response("is not for sale")
        ELSE IF player.money <= purchase_repo[purchase_id.id].minimum_acquisition_price
        THEN make_failed_response("cannot afford")
        ELSE <<>>

validate_purchase(gs, player_id, purchase_id) ==
    LET purchase_repo == IF purchase_id.type = "asset" THEN gs.assets ELSE gs.transmission
        player == gs.players[player_id]
        make_failed_response(text) == <<BuyResponse(player_id, FALSE, text, purchase_id)>>
    IN  IF purchase_id.id \notin DOMAIN purchase_repo
        THEN make_failed_response("does not exist")
        ELSE IF ~purchase_repo[purchase_id.id].is_for_sale
        THEN make_failed_response("is not for sale")
        ELSE IF player.money < purchase_repo[purchase_id.id].minimum_acquisition_price
        THEN make_failed_response("cannot afford")
        ELSE <<>>

LoadsDeactivatedMessage(player_id, asset_ids) ==
    [kind |-> "LoadsDeactivatedMessage", player_id |-> player_id, asset_ids |-> asset_ids]

\* fault variant: every asset of a player in debt is deactivated
deactivate_assets_of_players_in_debt(gs) ==
    LET humans == human_player_ids(gs.players)
        in_debt == SelectSeq(humans, LAMBDA p : ~(gs.players[p].money >= 0))
        load_ids(p) ==
            SelectSeq(AssetOrder, LAMBDA a : gs.assets[a].owner_player = p)
        ids_to_deactivate == UNION {Range(load_ids(in_debt[i])) : i \in DOMAIN in_debt}
        msgs == [i \in DOMAIN in_debt |-> LoadsDeactivatedMessage(in_debt[i], load_ids(in_debt[i]))]
    IN  [gs |-> [gs EXCEPT !.assets = batch_deactivate(gs.assets, ids_to_deactivate)],
         msgs |-> msgs]

deactivate_loads_of_players_in_debt(gs) ==
    LET humans == human_player_ids(gs.players)
        in_debt == SelectSeq(humans, LAMBDA p : ~(gs.players[p].money >= 0))
        load_ids(p) ==
            SelectSeq(AssetOrder,
                      LAMBDA a : gs.assets[a].owner_player = p /\ gs.assets[a].asset_type = LOAD)
        ids_to_deactivate == UNION {Range(load_ids(in_debt[i])) : i \in DOMAIN in_debt}
        msgs == [i \in DOMAIN in_debt |-> LoadsDeactivatedMessage(in_debt[i], load_ids(in_debt[i]))]
    IN  [gs |-> [gs EXCEPT !.assets = batch_deactivate(gs.assets, ids_to_deactivate)],
         msgs |-> msgs]

IceCreamMeltedMessage(player_id, asset_id, health) ==
    [kind |-> "IceCreamMeltedMessage", player_id |-> player_id, asset_id |-> asset_id,
     health |-> health]

RECURSIVE MeltAll(_, _)
MeltAll(assets, ids) ==
    IF ids = <<>> THEN assets
    ELSE MeltAll(melt_ice_cream(assets, Head(ids)), Tail(ids))

\* Referee.melt_ice_creams of src/src/engine/referee.py, the module next to
\* engine.py: a freezer melts whenever its dispatch is below power_expected
melt_ice_creams_src(gs) ==
    LET assets_dispatch == gs.market_coupling_result.assets_dispatch
        melted_ids ==
            SelectSeq(AssetOrder,
                      LAMBDA a : /\ gs.assets[a].is_freezer
                                 /\ gs.assets[a].health # 0
                                 /\ assets_dispatch[a] < gs.assets[a].power_expected)
        asset_repo == MeltAll(gs.assets, melted_ids)
        msgs == [i \in DOMAIN melted_ids |->
                    IceCreamMeltedMessage(asset_repo[melted_ids[i]].owner_player,
                                          melted_ids[i], asset_repo[melted_ids[i]].health)]
    IN  [gs |-> [gs EXCEPT !.assets = asset_repo], msgs |-> msgs]

\* Referee.melt_ice_creams of src/back_end/src/engine/referee.py
melt_ice_creams(gs) ==
    LET assets_dispatch == gs.market_coupling_result.assets_dispatch
        melted_ids ==
            SelectSeq(AssetOrder,
                      LAMBDA a : /\ gs.assets[a].is_freezer
                                 /\ gs.assets[a].health # 0
                                 /\ assets_dispatch[a] = 0)
        asset_repo == MeltAll(gs.assets, melted_ids)
        msgs == [i \in DOMAIN melted_ids |->
                    IceCreamMeltedMessage(asset_repo[melted_ids[i]].owner_player,
                                          melted_ids[i], asset_repo[melted_ids[i]].health)]
    IN  [gs |-> [gs EXCEPT !.assets = asset_repo], msgs |-> msgs]

TransmissionWornMessage(player_id, transmission_id, health) ==
    [kind |-> "TransmissionWornMessage", player_id |-> player_id,
     transmission_id |-> transmission_id, health |-> health]

RECURSIVE WearAllTransmission(_, _)
WearAllTransmission(transmission, ids) ==
    IF ids = <<>> THEN transmission
    ELSE WearAllTransmission(wear_transmission(transmission, Head(ids)), Tail(ids))

\* np.isclose(a, b) on the exact values of the model
isclose(a, b) == a = b

wear_congested_transmission(gs) ==
    LET flows == gs.market_coupling_result.transmission_flows
        congested_transmissions ==
            SelectSeq(TransmissionOrder,
                      LAMBDA t : /\ gs.transmission[t].health # 0
                                 /\ isclose(gs.transmission[t].capacity, flows[t]))
        transmission_repo == WearAllTransmission(gs.transmission, congested_transmissions)
        msgs == [i \in DOMAIN congested_transmissions |->
                    TransmissionWornMessage(
                        transmission_repo[congested_transmissions[i]].owner_player,
                        congested_transmissions[i],
                        transmission_repo[congested_transmissions[i]].health)]
    IN  [gs |-> [gs EXCEPT !.transmission = transmission_repo], msgs |-> msgs]

AssetWornMessage(player_id, asset_id, health) ==
    [kind |-> "AssetWornMessage", player_id |-> player_id, asset_id |-> asset_id,
     health |-> health]

RECURSIVE WearAllAssets(_, _)
WearAllAssets(assets, ids) ==
    IF ids = <<>> THEN assets
    ELSE WearAllAssets(wear_asset(assets, Head(ids)), Tail(ids))

wear_non_freezer_assets(gs) ==
    LET melted_ids ==
            SelectSeq(AssetOrder,
                      LAMBDA a : ~gs.assets[a].is_freezer /\ gs.assets[a].health # 0)
        asset_repo == WearAllAssets(gs.assets, melted_ids)
        msgs == [i \in DOMAIN melted_ids |->
                    AssetWornMessage(asset_repo[melted_ids[i]].owner_player,
                                     melted_ids[i], asset_repo[melted_ids[i]].health)]
    IN  [gs |-> [gs EXCEPT !.assets = asset_repo], msgs |-> msgs]

\* fault variant: the still_alive column is rewritten as a whole, which
\* revives every other player
eliminate_player_resets_others(players, player_id) ==
    [p \in DOMAIN players |-> [players[p] EXCEPT !.still_alive = (p # player_id)]]

eliminate_player(players, player_id) ==
    [players EXCEPT ![player_id].still_alive = FALSE]

\* AssetRepo.get_remaining_ice_creams is called by the Referee; its body is not in the sources
get_remaining_ice_creams(assets, player_id) ==
    LET freezers == {a \in DOMAIN assets :
                        assets[a].owner_player = player_id /\ assets[a].is_freezer}
    IN  Sum([a \in freezers |-> assets[a].health], freezers)

PlayerEliminatedMessage(player_id) ==
    [kind |-> "PlayerEliminatedMessage", player_id |-> player_id]

only_alive_human_players(players) ==
    SelectSeq(human_player_ids(players), LAMBDA p : players[p].still_alive)

RECURSIVE EliminateAll(_, _)
EliminateAll(players, ids) ==
    IF ids = <<>> THEN players
    ELSE EliminateAll(eliminate_player(players, Head(ids)), Tail(ids))

eliminate_players(gs) ==
    LET eliminated_player_ids ==
            SelectSeq(only_alive_human_players(gs.players),
                      LAMBDA p : ~(get_remaining_ice_creams(gs.assets, p) > 0))
        msgs == [i \in DOMAIN eliminated_player_ids |->
                    PlayerEliminatedMessage(eliminated_player_ids[i])]
    IN  [gs |-> [gs EXCEPT !.players = EliminateAll(gs.players, eliminated_player_ids)],
         msgs |-> msgs]

\* winner_id = None
NoWinner == -9

GameOverMessage(player_id, winner_id) ==
    [kind |-> "GameOverMessage", player_id |-> player_id, winner_id |-> winner_id]

\* fault variant: only the living humans are told
check_game_over_living_only(gs) ==
    LET alive == only_alive_human_players(gs.players)
        n_players_alive == Len(alive)
    IN  IF n_players_alive = 1
        THEN [gs |-> gs,
              msgs |-> [i \in DOMAIN alive |-> GameOverMessage(alive[i], alive[1])]]
        ELSE [gs |-> gs, msgs |-> <<>>]

check_game_over(gs) ==
    LET alive == only_alive_human_players(gs.players)
        n_players_alive == Len(alive)
        humans == human_player_ids(gs.players)
    IN  IF n_players_alive = 1
        THEN [gs |-> gs,
              msgs |-> [i \in DOMAIN humans |-> GameOverMessage(humans[i], alive[1])]]
        ELSE IF n_players_alive = 0
        THEN [gs |-> gs,
              msgs |-> [i \in DOMAIN humans |-> GameOverMessage(humans[i], NoWinner)]]
        ELSE [gs |-> gs, msgs |-> <<>>]

----------------------------------------------------------------------------
(* FinanceCalculator *)

\* fault variant: the fixed operating cost is left out
compute_assets_cashflow_market_only(gs, ids, assets_dispatch, bus_prices) ==
    LET flow == [a \in ids |->
                    LET asset == gs.assets[a]
                        sign == cashflow_sign(asset)
                        dispatched_volume == assets_dispatch[a]
                    IN  (-sign * Abs(dispatched_volume) * asset.marginal_cost)
                        + sign * Abs(dispatched_volume) * bus_prices[asset.bus]]
    IN  Sum(flow, ids)

compute_assets_cashflow(gs, ids, assets_dispatch, bus_prices) ==
    LET flow == [a \in ids |->
                    LET asset == gs.assets[a]
                        sign == cashflow_sign(asset)
                        dispatched_volume == assets_dispatch[a]
                    IN  (-sign * Abs(dispatched_volume) * asset.marginal_cost
                            - asset.fixed_operating_cost)
                        + sign * Abs(dispatched_volume) * bus_prices[asset.bus]]
    IN  Sum(flow, ids)

compute_transmission_cashflow(gs, ids, transmission_flows, bus_prices) ==
    LET pay == [t \in ids |->
                    LET line == gs.transmission[t]
                    IN  transmission_flows[t] * (bus_prices[line.bus1] - bus_prices[line.bus2])]
    IN  Sum(pay, ids)

compute_cashflows_after_power_delivery(gs, mcr) ==
    [p \in DOMAIN gs.players |->
        compute_assets_cashflow(gs, get_all_for_player(gs.assets, p, TRUE),
                                mcr.assets_dispatch, mcr.bus_prices)
        + compute_transmission_cashflow(gs, get_all_for_player(gs.transmission, p, TRUE),
                                        mcr.transmission_flows, mcr.bus_prices)]

\* fault variant: the sign of the validated asset is used for every asset
validate_bid_for_asset_one_sign(gs, player_assets, asset_id_to_validate, bid_to_validate, player_money) ==
    LET term == [a \in player_assets |->
                    LET asset == gs.assets[a]
                        bid_price == IF a # asset_id_to_validate
                                     THEN asset.bid_price ELSE bid_to_validate
                    IN  cashflow_sign(gs.assets[asset_id_to_validate]) * bid_price
                            * asset.power_expected]
        delta_money == Sum(term, player_assets)
    IN  player_money + delta_money >= 0

validate_bid_for_asset(gs, player_assets, asset_id_to_validate, bid_to_validate, player_money) ==
    LET term == [a \in player_assets |->
                    LET asset == gs.assets[a]
                        bid_price == IF a # asset_id_to_validate
                                     THEN asset.bid_price ELSE bid_to_validate
                    IN  cashflow_sign(asset) * bid_price * asset.power_expected]
        delta_money == Sum(term, player_assets)
    IN  player_money + delta_money >= 0

----------------------------------------------------------------------------
(* MarketCouplingCalculator: the solver is an oracle.  An outcome is either *)
(* a failure status or a result table for snapshot 0.                       *)

OracleNotRun == [status |-> "not run", result |-> NoMarketCouplingResult]

\* The results the oracle may return for a state: every active load is either
\* served in full or not at all, generators run iff some load is served, a
\* closed line carries nothing or is congested in one direction, and the bus
\* prices differ across a line only when it is congested.
MarketCouplingOutcomes(gs) ==
    LET loads == {a \in AssetIds : gs.assets[a].asset_type = LOAD /\ gs.assets[a].is_active}
        gens == {a \in AssetIds : gs.assets[a].asset_type = GENERATOR /\ gs.assets[a].is_active}
        dispatch(served) ==
            [a \in AssetIds |->
                IF a \in served \/ (a \in gens /\ served # {})
                THEN gs.assets[a].power_expected ELSE 0]
        flows(t) ==
            IF is_open(gs.transmission[t]) THEN {0}
            ELSE {-gs.transmission[t].capacity, 0, gs.transmission[t].capacity}
        prices(tf) ==
            [b \in Buses |->
                IF \E t \in TransmissionIds :
                      \/ tf[t] > 0 /\ gs.transmission[t].bus2 = b
                      \/ tf[t] < 0 /\ gs.transmission[t].bus1 = b
                THEN 20 ELSE 10]
        results ==
            {[present |-> TRUE, bus_prices |-> prices(tf), transmission_flows |-> tf,
              assets_dispatch |-> dispatch(served)] :
                tf \in {f \in [TransmissionIds -> UNION {flows(t) : t \in TransmissionIds}] :
                            \A t \in TransmissionIds : f[t] \in flows(t)},
                served \in SUBSET loads}
    IN  {[status |-> "optimal", result |-> r] : r \in results}
        \cup {[status |-> "infeasible", result |-> NoMarketCouplingResult]}

----------------------------------------------------------------------------
(* Engine *)

UpdateBidRequest(p, a, b) ==
    [kind |-> "UpdateBidRequest", player_id |-> p, asset_id |-> a, bid_price |-> b]

UpdateBidResponse(player_id, success, message, asset_id) ==
    [kind |-> "UpdateBidResponse", player_id |-> player_id, success |-> success,
     message |-> message, asset_id |-> asset_id]

BuyRequest(p, purchase_id) ==
    [kind |-> "BuyRequest", player_id |-> p, purchase_id |-> purchase_id]

OperateLineRequest(p, t, action) ==
    [kind |-> "OperateLineRequest", player_id |-> p, transmission_id |-> t,
     action |-> action]

OperateLineResponse(player_id, request, result, message) ==
    [kind |-> "OperateLineResponse", player_id |-> player_id, request |-> request,
     result |-> result, message |-> message]

OperateAssetRequest(p, a, action) ==
    [kind |-> "OperateAssetRequest", player_id |-> p, asset_id |-> a, action |-> action]

\* a message of a type the engine does not know
DummyMessage(p) == [kind |-> "DummyMessage", player_id |-> p]

AuctionClearedMessage(player_id, old_money, new_money) ==
    [kind |-> "AuctionClearedMessage", player_id |-> player_id,
     old_money |-> old_money, new_money |-> new_money]

_validate_update_bid(gs, m) ==
    LET make_failed_response(text) ==
            <<UpdateBidResponse(m.player_id, FALSE, text, m.asset_id)>>
    IN  IF m.asset_id \notin DOMAIN gs.assets
        THEN make_failed_response("Asset does not exist.")
        ELSE
        LET player == gs.players[m.player_id]
            asset == gs.assets[m.asset_id]
            player_assets == get_all_for_player(gs.assets, m.player_id, TRUE)
            min_bid == game_settings.min_bid_price
            max_bid == game_settings.max_bid_price
        IN  IF m.player_id # asset.owner_player
            THEN make_failed_response("cannot bid on asset as they do not own it")
            ELSE IF ~(min_bid <= m.bid_price /\ m.bid_price <= max_bid)
            THEN make_failed_response("not within the allowed range")
            ELSE IF validate_bid_for_asset(gs, player_assets, m.asset_id, m.bid_price,
                                           player.money)
            THEN make_failed_response("cannot afford the bid price")
            ELSE <<>>

handle_update_bid_message(gs, m) ==
    LET list_failed_response == _validate_update_bid(gs, m)
    IN  IF list_failed_response # <<>>
        THEN Return(gs, list_failed_response)
        ELSE Return([gs EXCEPT !.assets = update_bid_price(gs.assets, m.asset_id, m.bid_price)],
                    <<UpdateBidResponse(m.player_id, TRUE, "successfully updated bid",
                                        m.asset_id)>>)

\* fault variant: the price is transferred to the previous owner
handle_buy_asset_message_pays_seller(gs, m) ==
    LET list_failed_response == validate_purchase(gs, m.player_id, m.purchase_id)
    IN  IF list_failed_response # <<>>
        THEN Return(gs, list_failed_response)
        ELSE
        LET asset == gs.assets[m.purchase_id.id]
            new_players == add_money(subtract_money(gs.players, m.player_id,
                                                    asset.minimum_acquisition_price),
                                     asset.owner_player, asset.minimum_acquisition_price)
            new_assets == change_owner(gs.assets, m.purchase_id.id, m.player_id)
        IN  Return([gs EXCEPT !.players = new_players, !.assets = new_assets],
                   <<BuyResponse(m.player_id, TRUE, "successfully bought asset",
                                 m.purchase_id)>>)

handle_buy_asset_message(gs, m) ==
    LET list_failed_response == validate_purchase(gs, m.player_id, m.purchase_id)
    IN  IF list_failed_response # <<>>
        THEN Return(gs, list_failed_response)
        ELSE
        LET asset == gs.assets[m.purchase_id.id]
            new_players == subtract_money(gs.players, m.player_id,
                                          asset.minimum_acquisition_price)
            new_assets == change_owner(gs.assets, m.purchase_id.id, m.player_id)
        IN  Return([gs EXCEPT !.players = new_players, !.assets = new_assets],
                   <<BuyResponse(m.player_id, TRUE, "successfully bought asset",
                                 m.purchase_id)>>)

handle_buy_transmission_message(gs, m) ==
    LET list_failed_response == validate_purchase(gs, m.player_id, m.purchase_id)
    IN  IF list_failed_response # <<>>
        THEN Return(gs, list_failed_response)
        ELSE
        LET line == gs.transmission[m.purchase_id.id]
            new_players == subtract_money(gs.players, m.player_id,
                                          line.minimum_acquisition_price)
            new_transmission == change_owner(gs.transmission, m.purchase_id.id, m.player_id)
        IN  Return([gs EXCEPT !.players = new_players, !.transmission = new_transmission],
                   <<BuyResponse(m.player_id, TRUE, "successfully bought transmission",
                                 m.purchase_id)>>)

handle_operate_line_message(gs, m) ==
    LET make_response(result, text, new_game_state) ==
            Return(new_game_state, <<OperateLineResponse(m.player_id, m, result, text)>>)
    IN  IF m.transmission_id \notin DOMAIN gs.transmission
        THEN make_response("failure", "Transmission does not exist.", gs)
        ELSE
        LET line == gs.transmission[m.transmission_id]
        IN  IF line.owner_player # m.player_id
            THEN make_response("failure", "Transmission does not belong to this player.", gs)
            ELSE IF m.action = "open"
            THEN IF is_open(line)
                 THEN make_response("no_change", "Transmission line is already open.", gs)
                 ELSE make_response("success", "Transmission line opened successfully.",
                        [gs EXCEPT !.transmission = open_line(gs.transmission, m.transmission_id)])
            ELSE IF is_closed(line)
                 THEN make_response("no_change", "Transmission line is already closed.", gs)
                 ELSE make_response("success", "Transmission line closed successfully.",
                        [gs EXCEPT !.transmission = close_line(gs.transmission, m.transmission_id)])

\* LdcRepo.df, whose body is not in the sources: the frame the repository
\* holds, handed out as it is (each other mutator copies it before assigning)
df(repo) == repo

\* the receiver of open_line, read after the call: the assignment was made in
\* self.df
open_line_receiver(transmission, tid) ==
    [df(transmission) EXCEPT ![tid].is_active = FALSE]

\* the receiver of close_line, read after the call
close_line_receiver(transmission, tid) ==
    [df(transmission) EXCEPT ![tid].is_active = TRUE]

\* the state given to handle_message, read after the call has returned
input_after_handle_message(gs, m) ==
    IF /\ m.kind = "OperateLineRequest"
       /\ handle_operate_line_message(gs, m).msgs[1].result = "success"
    THEN [gs EXCEPT !.transmission =
            IF m.action = "open"
            THEN open_line_receiver(gs.transmission, m.transmission_id)
            ELSE close_line_receiver(gs.transmission, m.transmission_id)]
    ELSE gs

\* fault variant: the last EndTurn of a phase asks twice for its conclusion
handle_end_turn_message_concludes_twice(gs, m) ==
    LET new_gs == [gs EXCEPT !.players = end_turn(gs.players, m.player_id)]
    IN  IF are_all_players_finished(new_gs.players)
        THEN Return(new_gs, <<ConcludePhase(new_gs.phase), ConcludePhase(new_gs.phase)>>)
        ELSE Return(new_gs, <<>>)

handle_end_turn_message(gs, m) ==
    LET new_gs == [gs EXCEPT !.players = end_turn(gs.players, m.player_id)]
    IN  IF are_all_players_finished(new_gs.players)
        THEN Return(new_gs, <<ConcludePhase(new_gs.phase)>>)
        ELSE Return(new_gs, <<>>)

_process_construction_phase(gs) == Return(gs, <<>>)

_process_sneaky_tricks_phase(gs) == Return(gs, <<>>)

RECURSIVE AddAll(_, _, _)
AddAll(players, cashflows, ids) ==
    IF ids = <<>> THEN players
    ELSE AddAll(add_money(players, Head(ids), cashflows[Head(ids)]), cashflows, Tail(ids))

_update_game_state_with_market_coupling_result(gs, mcr) ==
    LET cashflows == compute_cashflows_after_power_delivery(gs, mcr)
        player_repo == AddAll(gs.players, cashflows, PlayerOrder)
        new_gs == [gs EXCEPT !.players = player_repo, !.market_coupling_result = mcr]
        msgs == [i \in DOMAIN PlayerOrder |->
                    AuctionClearedMessage(PlayerOrder[i], gs.players[PlayerOrder[i]].money,
                                          new_gs.players[PlayerOrder[i]].money)]
    IN  [gs |-> new_gs, msgs |-> msgs]

_apply_rules_after_market_coupling(gs) ==
    LET ice == melt_ice_creams(gs)
        tx == wear_congested_transmission(ice.gs)
        worn == wear_non_freezer_assets(tx.gs)
    IN  [gs |-> worn.gs, msgs |-> ice.msgs \o tx.msgs \o worn.msgs]

\* fault variant: a failed solve is passed over and the phase is concluded
\* with the loads of the debtors switched off
_process_day_ahead_auction_phase_unsolved(gs, oracle) ==
    LET debt == deactivate_loads_of_players_in_debt(gs)
    IN  IF oracle.status # "optimal"
        THEN Return(debt.gs, debt.msgs)
        ELSE
        LET cleared == _update_game_state_with_market_coupling_result(debt.gs, oracle.result)
            rules == _apply_rules_after_market_coupling(cleared.gs)
        IN  Return(rules.gs, debt.msgs \o rules.msgs)

_process_day_ahead_auction_phase(gs, oracle) ==
    LET debt == deactivate_loads_of_players_in_debt(gs)
    IN  IF oracle.status # "optimal"
        THEN Raise(debt.gs, "OptimizationError")
        ELSE
        LET cleared == _update_game_state_with_market_coupling_result(debt.gs, oracle.result)
            rules == _apply_rules_after_market_coupling(cleared.gs)
        IN  Return(rules.gs, debt.msgs \o rules.msgs)

\* fault variant: a concluded phase asks for the conclusion of the next one
handle_new_phase_message_cascades(gs, m, oracle) ==
    LET processed ==
            IF m.phase = CONSTRUCTION THEN _process_construction_phase(gs)
            ELSE IF m.phase = DA_AUCTION THEN _process_day_ahead_auction_phase(gs, oracle)
            ELSE IF m.phase = SNEAKY_TRICKS THEN _process_sneaky_tricks_phase(gs)
            ELSE Raise(gs, "NotImplementedError")
    IN  IF processed.err # "none"
        THEN processed
        ELSE
        LET new_game_state == processed.gs
        IN  Return([new_game_state EXCEPT
                        !.phase = get_next(new_game_state.phase),
                        !.players = start_all_turns(new_game_state.players),
                        !.round = IF get_next(new_game_state.phase) = 0
                                  THEN new_game_state.round + 1
                                  ELSE new_game_state.round],
                   processed.msgs \o <<ConcludePhase(get_next(new_game_state.phase))>>)

handle_new_phase_message(gs, m, oracle) ==
    LET processed ==
            IF m.phase = CONSTRUCTION THEN _process_construction_phase(gs)
            ELSE IF m.phase = DA_AUCTION THEN _process_day_ahead_auction_phase(gs, oracle)
            ELSE IF m.phase = SNEAKY_TRICKS THEN _process_sneaky_tricks_phase(gs)
            ELSE Raise(gs, "NotImplementedError")
    IN  IF processed.err # "none"
        THEN processed
        ELSE
        LET new_game_state == processed.gs
        IN  Return([new_game_state EXCEPT
                        !.phase = get_next(new_game_state.phase),
                        !.players = start_all_turns(new_game_state.players),
                        !.round = IF get_next(new_game_state.phase) = 0
                                  THEN new_game_state.round + 1
                                  ELSE new_game_state.round],
                   processed.msgs)

\* fault variant: a message of an unknown type is ignored
handle_message_ignores_unknown(gs, m, oracle) ==
    IF m.kind = "ConcludePhase" THEN handle_new_phase_message(gs, m, oracle)
    ELSE IF m.kind = "UpdateBidRequest" THEN handle_update_bid_message(gs, m)
    ELSE IF m.kind = "OperateLineRequest" THEN handle_operate_line_message(gs, m)
    ELSE IF m.kind = "BuyRequest"
    THEN IF m.purchase_id.type = "asset" THEN handle_buy_asset_message(gs, m)
         ELSE IF m.purchase_id.type = "transmission"
         THEN handle_buy_transmission_message(gs, m)
         ELSE Raise(gs, "NotImplementedError")
    ELSE IF m.kind = "EndTurn" THEN handle_end_turn_message(gs, m)
    ELSE Return(gs, <<>>)

handle_message(gs, m, oracle) ==
    IF m.kind = "ConcludePhase" THEN handle_new_phase_message(gs, m, oracle)
    ELSE IF m.kind = "UpdateBidRequest" THEN handle_update_bid_message(gs, m)
    ELSE IF m.kind = "OperateLineRequest" THEN handle_operate_line_message(gs, m)
    ELSE IF m.kind = "BuyRequest"
    THEN IF m.purchase_id.type = "asset" THEN handle_buy_asset_message(gs, m)
         ELSE IF m.purchase_id.type = "transmission"
         THEN handle_buy_transmission_message(gs, m)
         ELSE Raise(gs, "NotImplementedError")
    ELSE IF m.kind = "EndTurn" THEN handle_end_turn_message(gs, m)
    ELSE Raise(gs, "NotImplementedError")

----------------------------------------------------------------------------
(* The steps: one call of Engine.handle_message on the latest state.  A     *)
(* ConcludePhase in the outbound list is handled next, before any other     *)
(* message (GameManager.handle_player_message, spec section 4.5).           *)

PendingConclusions == SelectSeq(outbound, LAMBDA x : x.kind = "ConcludePhase")

NoPending == PendingConclusions = <<>>

\* GameManager.handle_player_message is not in the sources: it persists the
\* state once a call has ended without an exception and without an internal
\* message left to re-dispatch
persisted_state(r) ==
    IF r.err = "none" /\ SelectSeq(r.msgs, LAMBDA x : x.kind = "ConcludePhase") = <<>>
    THEN r.gs ELSE stored

\* the state the next call works on: the latest one while the call goes on,
\* the persisted one, loaded again, after an exception
latest_state(r) == IF r.err = "none" THEN r.gs ELSE stored

Apply(m, r) ==
    /\ budget > 0
    /\ budget' = budget - 1
    /\ game_state' = latest_state(r)
    /\ stored' = persisted_state(r)
    /\ outbound' = r.msgs
    /\ msg' = m
    /\ err' = r.err
    /\ UNCHANGED server

ReachesSolver(m) == m.kind = "ConcludePhase" /\ m.phase = DA_AUCTION

Oracles(gs, m) ==
    IF ReachesSolver(m)
    THEN MarketCouplingOutcomes(deactivate_loads_of_players_in_debt(gs).gs)
    ELSE {OracleNotRun}

Handle(m) ==
    /\ ReachesSolver(m) => auctions < MaxAuctions
    /\ auctions' = IF ReachesSolver(m) THEN auctions + 1 ELSE auctions
    /\ \E oracle \in Oracles(game_state, m) :
          Apply(m, handle_message(game_state, m, oracle))

HandleEndTurn ==
    /\ NoPending
    /\ \E p \in PlayerIds : Handle(EndTurn(p))

HandleBuyRequest ==
    /\ NoPending
    /\ \E p \in Humans :
       \E purchase_id \in {AssetPurchase(a) : a \in AssetIdInputs}
                            \cup {TransmissionPurchase(t) : t \in TransmissionIdInputs} :
          Handle(BuyRequest(p, purchase_id))

HandleUpdateBidRequest ==
    /\ NoPending
    /\ \E p \in Humans, a \in AssetIdInputs, b \in BidInputs :
          Handle(UpdateBidRequest(p, a, b))

HandleOperateLineRequest ==
    /\ NoPending
    /\ \E p \in Humans, t \in TransmissionIdInputs, action \in {"open", "close"} :
          Handle(OperateLineRequest(p, t, action))

HandleOperateAssetRequest ==
    /\ NoPending
    /\ \E p \in Humans, action \in {"shutdown", "startup"} :
          Handle(OperateAssetRequest(p, HumanOrder[1], action))

HandleDummyMessage ==
    /\ NoPending
    /\ Handle(DummyMessage(HumanOrder[1]))

\* a ConcludePhase given to the engine directly
HandleConcludePhase ==
    /\ NoPending
    /\ \E ph \in Phase : Handle(ConcludePhase(ph))

\* the ConcludePhase an EndTurn emitted, re-dispatched against the latest state
RedispatchConcludePhase ==
    /\ ~NoPending
    /\ Handle(Head(PendingConclusions))

Next ==
    \/ HandleEndTurn
    \/ HandleBuyRequest
    \/ HandleUpdateBidRequest
    \/ HandleOperateLineRequest
    \/ HandleOperateAssetRequest
    \/ HandleDummyMessage
    \/ HandleConcludePhase
    \/ RedispatchConcludePhase

Spec == Init /\ [][Next]_vars

\* players who only end their turns, and phase conclusions: longer runs
InitPhases == InitGame /\ budget = MaxPhaseSteps

NextPhases ==
    \/ HandleEndTurn
    \/ HandleConcludePhase
    \/ RedispatchConcludePhase

SpecPhases == InitPhases /\ [][NextPhases]_vars

\* the Referee's rules applied on their own to states of a running game
MaxRuleSteps == 1

HealthDraws == 0 .. 2
DispatchDraws == {0, 20, 50}

\* an inactive load gets no power; a human is eliminated only with no ice cream left
FreezerDraws ==
    {d \in [health : HealthDraws, dispatch : DispatchDraws, still_alive : BOOLEAN] :
        /\ d.health = 0 => d.dispatch = 0
        /\ ~d.still_alive => d.health = 0}

\* an open line carries no flow; a closed one may be congested in either direction
LineDraws ==
    {d \in [health : HealthDraws, is_active : BOOLEAN, flow : {-10, 0, 10}] :
        ~d.is_active => d.flow = 0 /\ d.health # 1}

RefereeState(gs, freezer, generator_health, line) ==
    [gs EXCEPT
        !.players = [p \in DOMAIN gs.players |->
                        IF p \in Humans
                        THEN [gs.players[p] EXCEPT !.still_alive = freezer[p].still_alive]
                        ELSE gs.players[p]],
        !.assets = [a \in DOMAIN gs.assets |->
                        IF a \in Humans
                        THEN [gs.assets[a] EXCEPT !.health = freezer[a].health,
                                                  !.is_active = freezer[a].health > 0]
                        ELSE [gs.assets[a] EXCEPT !.health = generator_health]],
        !.transmission = [t \in DOMAIN gs.transmission |->
                        [gs.transmission[t] EXCEPT !.health = line.health,
                                                   !.is_active = line.is_active]],
        !.market_coupling_result =
            [present |-> TRUE,
             bus_prices |-> [b \in Buses |-> 10],
             transmission_flows |-> [t \in TransmissionIds |-> line.flow],
             assets_dispatch |->
                 [a \in AssetIds |->
                     IF a \in Humans THEN freezer[a].dispatch
                     ELSE Sum([h \in Humans |-> freezer[h].dispatch], Humans)]]]

InitReferee ==
    /\ \E npc_bid \in NpcBidDraws, price \in LinePriceDraws,
          freezer \in [Humans -> FreezerDraws],
          generator_health \in HealthDraws, line \in LineDraws :
           game_state = RefereeState(create_new_game(npc_bid, price),
                                     freezer, generator_health, line)
    /\ outbound = <<>>
    /\ msg = NoMessage
    /\ err = "none"
    /\ auctions = 0
    /\ stored = game_state
    /\ server = server_start
    /\ budget = MaxRuleSteps

RuleCall(rule) == [kind |-> rule]

ApplyRule(rule, r) == Apply(RuleCall(rule), Return(r.gs, r.msgs))

MeltIceCreams ==
    /\ ApplyRule("melt_ice_creams", melt_ice_creams(game_state))
    /\ UNCHANGED auctions

MeltIceCreamsSrc ==
    /\ ApplyRule("melt_ice_creams", melt_ice_creams_src(game_state))
    /\ UNCHANGED auctions

WearCongestedTransmission ==
    /\ ApplyRule("wear_congested_transmission", wear_congested_transmission(game_state))
    /\ UNCHANGED auctions

WearNonFreezerAssets ==
    /\ ApplyRule("wear_non_freezer_assets", wear_non_freezer_assets(game_state))
    /\ UNCHANGED auctions

EliminatePlayers ==
    /\ ApplyRule("eliminate_players", eliminate_players(game_state))
    /\ UNCHANGED auctions

CheckGameOver ==
    /\ ApplyRule("check_game_over", check_game_over(game_state))
    /\ UNCHANGED auctions

NextReferee ==
    \/ MeltIceCreams
    \/ MeltIceCreamsSrc
    \/ WearCongestedTransmission
    \/ WearNonFreezerAssets
    \/ EliminatePlayers
    \/ CheckGameOver

SpecReferee == InitReferee /\ [][NextReferee]_vars

\* the DA_AUCTION conclusion and the rule applied before market coupling, on
\* states with debts
MaxDebtSteps == 2

MoneyDraws == {-5, 0, 100}

\* a game in CONSTRUCTION with every human playing, or in DA_AUCTION with
\* player 1 the last one playing
TurnDraws ==
    {[phase |-> CONSTRUCTION, playing |-> Humans],
     [phase |-> DA_AUCTION, playing |-> {HumanOrder[1]}]}

DebtState(gs, money, health, generator_owner, line_owner, turn) ==
    [gs EXCEPT
        !.phase = turn.phase,
        !.players = [p \in DOMAIN gs.players |->
                        [gs.players[p] EXCEPT !.money = money[p],
                                              !.is_having_turn = p \in turn.playing]],
        !.assets = [a \in DOMAIN gs.assets |->
                        IF a \in Humans
                        THEN [gs.assets[a] EXCEPT !.health = health[a],
                                                  !.is_active = health[a] > 0]
                        ELSE [gs.assets[a] EXCEPT !.owner_player = generator_owner,
                                                  !.is_for_sale = generator_owner = NPC]],
        !.transmission = [t \in DOMAIN gs.transmission |->
                        [gs.transmission[t] EXCEPT !.owner_player = line_owner,
                                                   !.is_for_sale = line_owner = NPC]]]

InitDebt ==
    /\ \E npc_bid \in NpcBidDraws, price \in LinePriceDraws,
          money \in [PlayerIds -> MoneyDraws], health \in [Humans -> {0, 2}],
          generator_owner \in PlayerIds, line_owner \in {NPC, HumanOrder[1]},
          turn \in TurnDraws :
           /\ money[NPC] # 100
           /\ game_state = DebtState(create_new_game(npc_bid, price), money, health,
                                     generator_owner, line_owner, turn)
    /\ outbound = <<>>
    /\ msg = NoMessage
    /\ err = "none"
    /\ auctions = 0
    /\ stored = game_state
    /\ server = server_start
    /\ budget = MaxDebtSteps

DeactivateLoadsOfPlayersInDebt ==
    /\ NoPending
    /\ ApplyRule("deactivate_loads_of_players_in_debt",
                 deactivate_loads_of_players_in_debt(game_state))
    /\ UNCHANGED auctions

\* a DA_AUCTION conclusion given to the engine directly, in a game that is
\* not in DA_AUCTION; in DA_AUCTION the conclusion comes from the last EndTurn
ConcludeDayAhead ==
    /\ NoPending
    /\ game_state.phase # DA_AUCTION
    /\ Handle(ConcludePhase(DA_AUCTION))

NextDebt ==
    \/ DeactivateLoadsOfPlayersInDebt
    \/ ConcludeDayAhead
    \/ HandleEndTurn
    \/ RedispatchConcludePhase

SpecDebt == InitDebt /\ [][NextDebt]_vars

----------------------------------------------------------------------------
(* Server: ConnectionManager, WebSocketFrontEnd and the websocket endpoint  *)
(* of one game, on the single event loop of the process.  A step is what a  *)
(* coroutine does between two suspension points.                            *)

MaxServerSteps == 5    \* connects, disconnects and client frames in a run of SpecServer

connect(active_connections, websocket, player_id) ==
    [active_connections EXCEPT ![player_id] = websocket]

disconnect(active_connections, player_id) ==
    IF player_id \in DOMAIN active_connections
    THEN [active_connections EXCEPT ![player_id] = NoSession]
    ELSE active_connections

\* fault variant: the message is applied to the state the session was sent
\* when it was opened
handle_websocket_message_on_first_frame(s, m) ==
    handle_message(server.transport[s][1].message.data, m, OracleNotRun)

\* handle_websocket_message: the message goes to the game manager, which loads
\* the state the repository holds now and gives it to the engine; the call
\* has no suspension point
handle_websocket_message(s, m) ==
    handle_message(stored, m, OracleNotRun)

\* fault variant: the newest message is sent first
handle_player_messages_newest_first(tasks, msgs, call) ==
    tasks \o [i \in 1..Len(msgs) |->
                [message |-> msgs[Len(msgs) + 1 - i], call |-> call,
                 index |-> Len(msgs) + 1 - i]]

\* WebSocketFrontEnd.handle_player_messages: one send task per message, created
\* in the order of the list; call and index tell where a message came from
handle_player_messages(tasks, msgs, call) ==
    tasks \o [i \in 1..Len(msgs) |-> [message |-> msgs[i], call |-> call, index |-> i]]

\* ConnectionManager.send_to_one_player up to its await: the socket registered
\* now is looked up and the frame is handed to it
send_to_one_player(srv, task) ==
    LET player_id == task.message.player_id
        websocket == IF player_id \in DOMAIN srv.active_connections
                     THEN srv.active_connections[player_id]
                     ELSE NoSession
    IN  IF websocket = NoSession
        THEN srv
        ELSE [srv EXCEPT !.transport[websocket] = Append(@, task),
                         !.sending = @ \cup {[websocket |-> websocket, task |-> task]}]

\* the game the repository holds when the server starts: DA_AUCTION, both
\* humans playing, player 1 owns the line
ServerGame(npc_bid, price) ==
    DebtState(create_new_game(npc_bid, price),
              [p \in PlayerIds |-> IF p = NPC THEN 0 ELSE 100],
              [p \in Humans |-> 2], NPC, HumanOrder[1],
              [phase |-> DA_AUCTION, playing |-> Humans])

InitServer ==
    /\ \E npc_bid \in NpcBidDraws, price \in LinePriceDraws :
           game_state = ServerGame(npc_bid, price)
    /\ outbound = <<>>
    /\ msg = NoMessage
    /\ err = "none"
    /\ auctions = 0
    /\ stored = game_state
    /\ server = server_start
    /\ budget = MaxServerSteps

ClientMessages(player_id) ==
    {EndTurn(player_id), OperateLineRequest(player_id, TransmissionOrder[1], "open")}

\* websocket_endpoint up to its receive loop: the socket is accepted and
\* registered, and the current game state is its first frame
Connect ==
    /\ NoPending
    /\ budget > 0
    /\ budget' = budget - 1
    /\ \E s \in SessionIds :
          /\ server.websocket[s] = "new"
          /\ server' = [server EXCEPT
                !.websocket[s] = "open",
                !.active_connections = connect(@, s, SessionPlayer[s]),
                !.transport[s] = Append(@, [message |-> [kind |-> "game_state",
                                                          data |-> stored],
                                            call |-> 0, index |-> 0])]
    /\ UNCHANGED <<game_state, outbound, msg, err, auctions, stored>>

\* receive_text raises WebSocketDisconnect: the endpoint removes the entry of
\* its (game_id, player_id) and ends
Disconnect ==
    /\ NoPending
    /\ budget > 0
    /\ budget' = budget - 1
    /\ \E s \in SessionIds :
          /\ server.websocket[s] \in {"open", "broken"}
          /\ server' = [server EXCEPT
                !.websocket[s] = "closed",
                !.active_connections = disconnect(@, SessionPlayer[s])]
    /\ UNCHANGED <<game_state, outbound, msg, err, auctions, stored>>

\* step 5 of GameManager.handle_player_message, whose body is not in the
\* sources: the call is over and the player messages go to the front end
forward(srv, m, oracle, msgs) ==
    [srv EXCEPT !.handled = Append(@, [m |-> m, oracle |-> oracle]),
                !.tasks = handle_player_messages(@, msgs, Len(srv.handled) + 1)]

\* the except branch of handle_websocket_message: the call is over and an
\* error frame is sent to the player
answer_error(srv, m, oracle) ==
    send_to_one_player([srv EXCEPT !.handled = Append(@, [m |-> m, oracle |-> oracle])],
                       [message |-> [kind |-> "error", player_id |-> m.player_id],
                        call |-> Len(srv.handled) + 1, index |-> 0])

\* a client frame: handle_websocket_message builds the message with the
\* player_id of the path and calls the game manager.  Without an internal
\* message in the outbound list the state is persisted and the messages are
\* forwarded; with one, the call goes on in Redispatch
ReceiveText ==
    /\ NoPending
    /\ budget > 0
    /\ budget' = budget - 1
    /\ auctions' = auctions
    /\ \E s \in SessionIds :
          /\ server.websocket[s] = "open"
          /\ \E m \in ClientMessages(SessionPlayer[s]) :
             \E r \in {handle_websocket_message(s, m)} :
                LET internal == SelectSeq(r.msgs, LAMBDA x : x.kind = "ConcludePhase")
                IN  /\ msg' = m
                    /\ err' = r.err
                    /\ outbound' = r.msgs
                    /\ stored' = IF r.err = "none" /\ internal = <<>> THEN r.gs ELSE stored
                    /\ game_state' = IF r.err = "none" THEN r.gs ELSE stored
                    /\ server' = IF r.err # "none"
                                  THEN answer_error(server, m, OracleNotRun)
                                  ELSE IF internal = <<>>
                                  THEN forward(server, m, OracleNotRun, r.msgs)
                                  ELSE server

\* the frames that are not turned into an engine request
UndecodedFrames == {"invalid json", "operate_asset_request", "unknown_type"}

\* a client frame that json.loads rejects gets an error frame on its own
\* socket (websocket_endpoint); a frame whose type has no branch in
\* handle_websocket_message is logged with a warning and dropped
ReceiveUndecoded ==
    /\ NoPending
    /\ budget > 0
    /\ budget' = budget - 1
    /\ \E s \in SessionIds, frame \in UndecodedFrames :
          /\ server.websocket[s] = "open"
          /\ msg' = [kind |-> "frame", type |-> frame, websocket |-> s]
          /\ server' =
                IF frame = "invalid json"
                THEN [server EXCEPT !.transport[s] =
                        Append(@, [message |-> [kind |-> "error",
                                                player_id |-> SessionPlayer[s]],
                                   call |-> 0, index |-> 0])]
                ELSE server
    /\ UNCHANGED <<game_state, outbound, err, auctions, stored>>

\* step 3 of GameManager.handle_player_message: the internal message of the
\* outbound list is handled against the latest state, in the same call, and
\* its messages are added to the player messages gathered so far
Redispatch ==
    /\ ~NoPending
    /\ UNCHANGED <<budget, auctions, msg>>
    /\ \E oracle \in Oracles(game_state, Head(PendingConclusions)) :
       \E r \in {handle_message(game_state, Head(PendingConclusions), oracle)} :
          LET gathered == SelectSeq(outbound, LAMBDA x : x.kind # "ConcludePhase") \o r.msgs
              internal == SelectSeq(r.msgs, LAMBDA x : x.kind = "ConcludePhase")
          IN  /\ err' = r.err
              /\ outbound' = IF r.err = "none" THEN gathered ELSE <<>>
              /\ stored' = IF r.err = "none" /\ internal = <<>> THEN r.gs ELSE stored
              /\ game_state' = IF r.err = "none" THEN r.gs ELSE stored
              /\ server' = IF r.err # "none" THEN answer_error(server, msg, oracle)
                            ELSE IF internal = <<>>
                            THEN forward(server, msg, oracle, gathered)
                            ELSE server

\* the event loop starts the oldest send task
StartSend ==
    /\ NoPending
    /\ server.tasks # <<>>
    /\ server' = send_to_one_player([server EXCEPT !.tasks = Tail(@)], Head(server.tasks))
    /\ UNCHANGED <<game_state, outbound, msg, err, budget, auctions, stored>>

\* a send_text returns, or raises and the task removes the entry of the player
FinishSend ==
    /\ NoPending
    /\ \E x \in server.sending, ok \in BOOLEAN :
          server' = [server EXCEPT
                !.sending = @ \ {x},
                !.websocket[x.websocket] = IF ok \/ @ = "closed" THEN @ ELSE "broken",
                !.active_connections =
                    IF ok THEN @ ELSE disconnect(@, x.task.message.player_id)]
    /\ UNCHANGED <<game_state, outbound, msg, err, budget, auctions, stored>>

NextServer ==
    \/ Connect
    \/ Disconnect
    \/ ReceiveText
    \/ Redispatch
    \/ StartSend
    \/ FinishSend

SpecServer == InitServer /\ [][NextServer]_vars

\* the server with the frames it does not decode
NextFrames ==
    \/ NextServer
    \/ ReceiveUndecoded

SpecFrames == InitServer /\ [][NextFrames]_vars

-----------------------------------------------------------------------------
(* DefaultGameInitializer for any roster and any number of buses *)

MaxRoster == 3
MaxBuses == 5

\* a call create_new_game(game_id, player_names) under settings.n_buses
NewGameRequests ==
    {r \in [kind : {"new_game"}, game_id : {1},
            n_players : 1..MaxRoster, n_buses : 2..MaxBuses] :
        r.n_buses >= r.n_players + 1}

\* np.random.uniform(initial_funds / 20, initial_funds / 2) for the NPC bid
NewGameBidDraws ==
    {game_settings.initial_funds \div 20, game_settings.initial_funds \div 2}

\* np.random.uniform(10, 100) for the price of a line
NewGameLineDraws == {10, 100}

\* the number of points laid out, -1 when Shape.make_regular_polygon fails
\* its assertion: an open polygon of n points is built as a closed one of
\* n + 1 points, which must be at least 3
make_layered_polygon(n_buses, n_buses_per_layer) ==
    LET n_layers == (n_buses + n_buses_per_layer - 1) \div n_buses_per_layer
    IN  IF n_layers > 0 /\ n_buses_per_layer + 1 < 3
        THEN -1
        ELSE IF n_buses < n_layers * n_buses_per_layer
             THEN n_buses
             ELSE n_layers * n_buses_per_layer

\* the first buses go to the players in repository order, the NPC last
\* among them, the remaining buses to the NPC
_create_bus_repo(n_humans, n_buses) ==
    LET points == make_layered_polygon(n_buses, n_humans)
        n == IF n_buses < points THEN n_buses ELSE points
    IN  [b \in 1..n |->
            [player_id |-> IF b <= n_humans THEN b ELSE NPC,
             max_lines |-> 5, max_assets |-> 5]]

\* the connections of the buses at index idx and above, in creation order
RECURSIVE make_spiderweb(_, _, _)
make_spiderweb(idx, n_buses, n_buses_per_layer) ==
    IF idx >= n_buses
    THEN <<>>
    ELSE LET layer == idx \div n_buses_per_layer
             i == idx % n_buses_per_layer
             n_layers == (n_buses + n_buses_per_layer - 1) \div n_buses_per_layer
             ccw_bus_idx == (layer + 1) * n_buses_per_layer + i - 1
             cw_bus_idx == layer * n_buses_per_layer + i + 1
             upper_layer_bus_idx == (layer + 1) * n_buses_per_layer + i
             connection(other) == <<[bus1 |-> idx + 1, bus2 |-> other + 1]>>
         IN  (IF i + 1 < n_buses_per_layer /\ cw_bus_idx < n_buses
              THEN connection(cw_bus_idx) ELSE <<>>)
             \o (IF i % n_buses_per_layer = 0 /\ ccw_bus_idx < n_buses
                 THEN connection(ccw_bus_idx) ELSE <<>>)
             \o (IF layer + 1 < n_layers /\ upper_layer_bus_idx < n_buses
                 THEN connection(upper_layer_bus_idx) ELSE <<>>)
             \o make_spiderweb(idx + 1, n_buses, n_buses_per_layer)

\* the sockets of a bus that a list of lines uses
used_sockets(lines, bus) ==
    Cardinality({k \in DOMAIN lines : lines[k].bus1 = bus})
    + Cardinality({k \in DOMAIN lines : lines[k].bus2 = bus})

\* NPC-owned lines over the spider web; use_socket raises when a bus has no
\* socket left
spiderweb_transmission_repo(bus_repo, n_humans, line_draw) ==
    LET topology == make_spiderweb(0, Len(bus_repo), n_humans)
    IN  [raised |-> IF \E b \in DOMAIN bus_repo :
                          used_sockets(topology, b) > bus_repo[b].max_lines
                    THEN "BusFullException" ELSE "none",
         lines |-> [k \in DOMAIN topology |->
                      [owner_player |-> NPC, bus1 |-> topology[k].bus1,
                       bus2 |-> topology[k].bus2, health |-> 5,
                       is_for_sale |-> TRUE,
                       minimum_acquisition_price |-> line_draw[k],
                       is_active |-> TRUE]]]

\* every bus without a line gets an NPC-owned line to the bus get_random
\* returns for it, which may be the bus itself, at a drawn price; no socket
\* is counted
_ensure_no_islanded_buses(bus_repo, transmission_repo, get_random) ==
    LET islanded == {b \in DOMAIN bus_repo : used_sockets(transmission_repo, b) = 0}
        RECURSIVE additional_connections(_)
        additional_connections(b) ==
            IF b > Len(bus_repo) THEN <<>>
            ELSE (IF b \in islanded
                  THEN <<[owner_player |-> NPC,
                          bus1 |-> IF b < get_random[b][1] THEN b ELSE get_random[b][1],
                          bus2 |-> IF b < get_random[b][1] THEN get_random[b][1] ELSE b,
                          health |-> 5, is_for_sale |-> TRUE,
                          minimum_acquisition_price |-> get_random[b][2],
                          is_active |-> TRUE]>>
                  ELSE <<>>) \o additional_connections(b + 1)
    IN  transmission_repo \o additional_connections(1)

\* fault variant: every freezer is placed at the first bus
roster_asset_repo_first_bus(n_humans, bus_repo, npc_bus, npc_bid) ==
    [a \in 1..(n_humans + 1) |->
        IF a <= n_humans
        THEN [owner_player |-> a, asset_type |-> LOAD, bus |-> 1,
              is_for_sale |-> FALSE,
              bid_price |-> game_settings.initial_funds \div 2,
              is_freezer |-> TRUE, health |-> game_settings.n_init_ice_cream,
              is_active |-> TRUE]
        ELSE [owner_player |-> NPC, asset_type |-> GENERATOR, bus |-> npc_bus,
              is_for_sale |-> TRUE, bid_price |-> npc_bid,
              is_freezer |-> FALSE, health |-> 0, is_active |-> TRUE]]

\* one freezer per human at the human's bus, then the NPC generator at a
\* bus with a free socket
roster_asset_repo(n_humans, bus_repo, npc_bus, npc_bid) ==
    [a \in 1..(n_humans + 1) |->
        IF a <= n_humans
        THEN [owner_player |-> a, asset_type |-> LOAD,
              bus |-> CHOOSE b \in DOMAIN bus_repo : bus_repo[b].player_id = a,
              is_for_sale |-> FALSE,
              bid_price |-> game_settings.initial_funds \div 2,
              is_freezer |-> TRUE, health |-> game_settings.n_init_ice_cream,
              is_active |-> TRUE]
        ELSE [owner_player |-> NPC, asset_type |-> GENERATOR, bus |-> npc_bus,
              is_for_sale |-> TRUE, bid_price |-> npc_bid,
              is_freezer |-> FALSE, health |-> 0, is_active |-> TRUE]]

\* create_new_game for a roster of n_humans names: the exception it raises,
\* or the state it returns
DefaultGameInitializer(n_humans, n_buses, npc_bus, npc_bid, line_draw, get_random) ==
    LET player_repo == [p \in (1..n_humans) \cup {NPC} |->
                           [money |-> IF p = NPC THEN 0 ELSE game_settings.initial_funds,
                            is_having_turn |-> FALSE, still_alive |-> TRUE]]
        bus_repo == _create_bus_repo(n_humans, n_buses)
        spiderweb == spiderweb_transmission_repo(bus_repo, n_humans, line_draw)
    IN  IF make_layered_polygon(n_buses, n_humans) < 0
        THEN [raised |-> "AssertionError"]
        ELSE IF \E p \in 1..n_humans :
                   Cardinality({b \in DOMAIN bus_repo : bus_repo[b].player_id = p}) # 1
        THEN [raised |-> "AssertionError"]
        ELSE IF spiderweb.raised # "none"
        THEN [raised |-> spiderweb.raised]
        ELSE [raised |-> "none",
              state |->
                 [phase |-> CONSTRUCTION,
                  round |-> 1,
                  players |-> [p \in DOMAIN player_repo |->
                                  [player_repo[p] EXCEPT !.is_having_turn = (p # NPC)]],
                  buses |-> bus_repo,
                  assets |-> roster_asset_repo(n_humans, bus_repo, npc_bus, npc_bid),
                  transmission |-> _ensure_no_islanded_buses(bus_repo, spiderweb.lines, get_random),
                  market_coupling_result |-> NoMarketCouplingResult]]

InitNewGame ==
    /\ game_state = [phase |-> "no game"]
    /\ outbound = <<>>
    /\ msg = NoMessage
    /\ err = "none"
    /\ budget = 0
    /\ auctions = 0
    /\ stored = game_state
    /\ server = server_start

\* what create_new_game can return for one request, over the values it draws
NewGameOutcomes(r) ==
    {DefaultGameInitializer(r.n_players, r.n_buses, npc_bus, npc_bid, line_draw, get_random) :
        npc_bus \in 1..r.n_buses, npc_bid \in NewGameBidDraws,
        line_draw \in [DOMAIN make_spiderweb(0, r.n_buses, r.n_players) -> NewGameLineDraws],
        get_random \in [{b \in 1..r.n_buses :
                             used_sockets(make_spiderweb(0, r.n_buses, r.n_players), b) = 0}
                         -> (1..r.n_buses) \X NewGameLineDraws]}

\* the call of create_new_game that starts the game; the state it returns is
\* saved
CreateNewGame ==
    /\ msg = NoMessage
    /\ \E r \in NewGameRequests :
       \E g \in NewGameOutcomes(r) :
          /\ msg' = r
          /\ err' = g.raised
          /\ game_state' = IF g.raised = "none" THEN g.state ELSE game_state
          /\ stored' = game_state'
    /\ UNCHANGED <<outbound, budget, auctions, server>>

NextNewGame == CreateNewGame

SpecNewGame == InitNewGame /\ [][NextNewGame]_vars

----------------------------------------------------------------------------
(* Properties.  msg is the message of the last call, so in a step msg' is    *)
(* the message being handled, game_state the input state and game_state'    *)
(* the returned one.                                                        *)

PurchaseInputs ==
    {AssetPurchase(a) : a \in AssetIdInputs}
        \cup {TransmissionPurchase(t) : t \in TransmissionIdInputs}

PurchaseRepo(gs, purchase_id) ==
    IF purchase_id.type = "asset" THEN gs.assets ELSE gs.transmission

PurchaseExists(gs, purchase_id) == purchase_id.id \in DOMAIN PurchaseRepo(gs, purchase_id)

PurchaseItem(gs, purchase_id) == PurchaseRepo(gs, purchase_id)[purchase_id.id]

BuySucceeded(out) == \E i \in DOMAIN out : out[i].kind = "BuyResponse" /\ out[i].success

NoHumanHasTurn(gs) == \A h \in Humans : ~gs.players[h].is_having_turn

LivingHumansHaveTurn(gs) ==
    \A h \in Humans : gs.players[h].still_alive => gs.players[h].is_having_turn

\* the documented solver failure, which leaves the state as it was
SolverFailed(e) == e = "OptimizationError"

\* C1: handling EndTurn(p) clears p's is_having_turn and changes nothing else in
\* the state; the outbound list is [ConcludePhase(phase)] when afterwards no
\* human has is_having_turn, and empty otherwise.
C1_EndTurnEffect ==
    [][msg'.kind = "EndTurn" =>
        LET p == msg'.player_id
        IN  /\ err' = "none"
            /\ game_state' =
                  [game_state EXCEPT !.players[p].is_having_turn = FALSE]
            /\ outbound' = IF NoHumanHasTurn(game_state')
                           THEN <<ConcludePhase(game_state.phase)>>
                           ELSE <<>>]_vars

\* C1 witness: the last human's EndTurn has emitted the ConcludePhase
C1_Witness ==
    /\ msg.kind = "EndTurn"
    /\ msg.player_id \in Humans
    /\ outbound = <<ConcludePhase(game_state.phase)>>
    /\ NoHumanHasTurn(game_state)

\* C2: handling ConcludePhase in a state whose phase is p sets the phase to
\* (p+1) mod 4; round increases by exactly 1 when the new phase is
\* CONSTRUCTION and is unchanged otherwise (a solver failure aside, which
\* leaves the state as it was).
C2_PhaseCycle ==
    [][(msg'.kind = "ConcludePhase" /\ msg'.phase = game_state.phase
            /\ ~SolverFailed(err')) =>
        /\ game_state'.phase = (game_state.phase + 1) % 4
        /\ game_state'.round = IF game_state'.phase = CONSTRUCTION
                               THEN game_state.round + 1
                               ELSE game_state.round]_vars

\* C3: for p in {CONSTRUCTION, SNEAKY_TRICKS, BIDDING}, handling
\* ConcludePhase(p) completes without error and leaves assets, transmission,
\* every player's money and still_alive and the market coupling result
\* unchanged.
C3_NoBookkeeping ==
    [][(msg'.kind = "ConcludePhase"
            /\ msg'.phase \in {CONSTRUCTION, SNEAKY_TRICKS, BIDDING}) =>
        /\ err' = "none"
        /\ game_state'.assets = game_state.assets
        /\ game_state'.transmission = game_state.transmission
        /\ game_state'.market_coupling_result = game_state.market_coupling_result
        /\ \A q \in PlayerIds :
              /\ game_state'.players[q].money = game_state.players[q].money
              /\ game_state'.players[q].still_alive = game_state.players[q].still_alive]_vars

\* C4: in the initial state and right after handling a ConcludePhase of the
\* current phase, every living human has is_having_turn and the NPC has not.
C4_TurnsStarted ==
    (\/ msg = NoMessage
     \/ /\ msg.kind = "ConcludePhase"
        /\ ~SolverFailed(err)
        /\ (err = "none" \/ msg.phase = game_state.phase))
    => /\ LivingHumansHaveTurn(game_state)
       /\ ~game_state.players[NPC].is_having_turn

\* C5: once each living human has sent EndTurn, the ConcludePhase that the
\* last EndTurn emitted concludes the phase and advances it (a solver failure
\* aside).
C5_PhaseConcludes ==
    [][(~NoPending /\ ~SolverFailed(err')) =>
        /\ err' = "none"
        /\ game_state'.phase = get_next(game_state.phase)]_vars

\* C6: a DA_AUCTION conclusion ends with eliminate players and check game
\* over, so after it the owner of a freezer whose health is 0 is eliminated.
C6_MeltedOwnerEliminated ==
    (msg.kind = "ConcludePhase" /\ msg.phase = DA_AUCTION /\ err = "none"
        /\ game_state.phase = get_next(DA_AUCTION)) =>
        \A a \in AssetIds :
            (game_state.assets[a].is_freezer /\ game_state.assets[a].health = 0)
                => ~game_state.players[game_state.assets[a].owner_player].still_alive

\* C7: a BuyRequest that succeeds lowers the buyer's money by exactly the
\* item's minimum_acquisition_price; one that fails leaves it unchanged.
C7_BuyMoneyConservation ==
    [][msg'.kind = "BuyRequest" =>
        LET p == msg'.player_id
            before == game_state.players[p].money
            after == game_state'.players[p].money
        IN  IF BuySucceeded(outbound')
            THEN before - after =
                    PurchaseItem(game_state, msg'.purchase_id).minimum_acquisition_price
            ELSE after = before]_vars

\* C7 witness: a line bought at a positive price
C7_Witness ==
    /\ msg.kind = "BuyRequest"
    /\ msg.purchase_id.type = "transmission"
    /\ BuySucceeded(outbound)
    /\ game_state.players[msg.player_id].money < game_settings.initial_funds

\* C8: a successful BuyRequest makes the buyer the owner_player of the
\* purchased item, clears its is_for_sale and emits exactly one BuyResponse,
\* with success = true and that purchase_id.
C8_BuyTransfersOwnership ==
    [][(msg'.kind = "BuyRequest" /\ BuySucceeded(outbound')) =>
        /\ PurchaseItem(game_state', msg'.purchase_id).owner_player = msg'.player_id
        /\ ~PurchaseItem(game_state', msg'.purchase_id).is_for_sale
        /\ Len(outbound') = 1
        /\ outbound'[1].kind = "BuyResponse"
        /\ outbound'[1].success
        /\ outbound'[1].purchase_id = msg'.purchase_id]_vars

\* C8 witness: an asset bought from the NPC
C8_Witness ==
    /\ msg.kind = "BuyRequest"
    /\ msg.purchase_id.type = "asset"
    /\ BuySucceeded(outbound)
    /\ PurchaseItem(game_state, msg.purchase_id).owner_player = msg.player_id

\* C9: validate_purchase returns a non-empty list of failed BuyResponse iff the
\* id does not exist, or the item is not for sale, or the player's money is
\* strictly below its minimum_acquisition_price; otherwise the empty list.
C9_ValidatePurchase ==
    \A p \in PlayerIds, purchase_id \in PurchaseInputs :
        LET failed == validate_purchase(game_state, p, purchase_id)
            refused ==
                \/ ~PurchaseExists(game_state, purchase_id)
                \/ ~PurchaseItem(game_state, purchase_id).is_for_sale
                \/ game_state.players[p].money
                       < PurchaseItem(game_state, purchase_id).minimum_acquisition_price
        IN  /\ (failed # <<>>) <=> refused
            /\ \A i \in DOMAIN failed :
                  failed[i].kind = "BuyResponse" /\ ~failed[i].success

\* C9 witness: a purchase by a player whose money equalled the price has
\* passed validate_purchase and left the buyer with nothing
C9_Witness ==
    /\ msg.kind = "BuyRequest"
    /\ BuySucceeded(outbound)
    /\ PurchaseItem(game_state, msg.purchase_id).minimum_acquisition_price > 0
    /\ game_state.players[msg.player_id].money = 0
    /\ validate_purchase(game_state, msg.player_id, msg.purchase_id) # <<>>

\* the rules a request can violate (spec section on RuleViolation)
ViolatesRule(gs, m) ==
    IF m.kind = "BuyRequest"
    THEN \/ ~PurchaseExists(gs, m.purchase_id)
         \/ ~PurchaseItem(gs, m.purchase_id).is_for_sale
         \/ gs.players[m.player_id].money
                < PurchaseItem(gs, m.purchase_id).minimum_acquisition_price
    ELSE IF m.kind = "UpdateBidRequest"
    THEN \/ m.asset_id \notin DOMAIN gs.assets
         \/ gs.assets[m.asset_id].owner_player # m.player_id
         \/ m.bid_price < game_settings.min_bid_price
         \/ m.bid_price > game_settings.max_bid_price
         \/ ~validate_bid_for_asset(gs, get_all_for_player(gs.assets, m.player_id, TRUE),
                                    m.asset_id, m.bid_price, gs.players[m.player_id].money)
    ELSE IF m.kind = "OperateLineRequest"
    THEN \/ m.transmission_id \notin DOMAIN gs.transmission
         \/ gs.transmission[m.transmission_id].owner_player # m.player_id
    ELSE FALSE

ResponseFailed(r) ==
    IF r.kind = "OperateLineResponse" THEN r.result = "failure"
    ELSE r.kind \in {"BuyResponse", "UpdateBidResponse"} /\ ~r.success

\* C10: a BuyRequest, UpdateBidRequest or OperateLineRequest that violates a
\* rule returns normally with the state unchanged and exactly one response,
\* marked as failed.
C10_RuleViolationsFail ==
    [][ViolatesRule(game_state, msg') =>
        /\ err' = "none"
        /\ game_state' = game_state
        /\ Len(outbound') = 1
        /\ ResponseFailed(outbound'[1])]_vars

\* C11: for a line owned by the requesting player, 'open' on a closed line
\* returns success and sets is_active = false, 'open' on an open line returns
\* no_change with the state unchanged, 'close' on an open line returns success
\* and sets is_active = true, 'close' on a closed line returns no_change; for a
\* line the player does not own the result is failure and the line is
\* unchanged; each request emits exactly one OperateLineResponse.
C11_OperateLine ==
    [][(msg'.kind = "OperateLineRequest"
            /\ msg'.transmission_id \in DOMAIN game_state.transmission) =>
        LET t == msg'.transmission_id
            line == game_state.transmission[t]
            toggled == [game_state EXCEPT !.transmission[t].is_active = ~line.is_active]
            expected ==
                IF line.owner_player # msg'.player_id THEN "failure"
                ELSE IF (msg'.action = "open") = line.is_active THEN "success"
                ELSE "no_change"
        IN  /\ err' = "none"
            /\ Len(outbound') = 1
            /\ outbound'[1].kind = "OperateLineResponse"
            /\ outbound'[1].result = expected
            /\ game_state' = IF expected = "success" THEN toggled ELSE game_state]_vars

\* C11 witness: the owner has closed an open line again
C11_Witness ==
    /\ msg.kind = "OperateLineRequest"
    /\ msg.action = "close"
    /\ Len(outbound) = 1
    /\ outbound[1].result = "success"
    /\ game_state.transmission[msg.transmission_id].owner_player = msg.player_id
    /\ game_state.transmission[msg.transmission_id].is_active

\* what OperateAssetRequest is specified to return for a request on an
\* existing asset
ExpectedOperateAsset(gs, m) ==
    LET asset == gs.assets[m.asset_id]
    IN  IF asset.owner_player # m.player_id THEN "failure"
        ELSE IF (m.action = "shutdown") # asset.is_active THEN "no_change"
        ELSE IF m.action = "startup" /\ asset.asset_type = LOAD
                /\ gs.players[m.player_id].money < 0 THEN "failure"
        ELSE "success"

\* C12: handle_message accepts OperateAssetRequest and emits exactly one
\* OperateAssetResponse: shutdown of an active asset or startup of an inactive
\* one by its owner returns success and flips is_active, repeating the action
\* returns no_change, a non-owner gets failure, and startup of a load whose
\* owner has money < 0 returns failure and leaves the load inactive.
C12_OperateAsset ==
    [][(msg'.kind = "OperateAssetRequest" /\ msg'.asset_id \in DOMAIN game_state.assets) =>
        LET a == msg'.asset_id
            expected == ExpectedOperateAsset(game_state, msg')
        IN  /\ err' = "none"
            /\ Len(outbound') = 1
            /\ outbound'[1].kind = "OperateAssetResponse"
            /\ outbound'[1].result = expected
            /\ game_state'.assets[a].is_active =
                  IF expected = "success" THEN ~game_state.assets[a].is_active
                  ELSE game_state.assets[a].is_active]_vars

\* the message types the engine is specified to accept
SupportedKinds ==
    {"ConcludePhase", "BuyRequest", "UpdateBidRequest", "OperateLineRequest",
     "OperateAssetRequest", "EndTurn"}

\* C13: handle_message on a message of none of the supported types fails with
\* the unsupported-message error (NotImplementedError in the program), produces
\* no outbound message and leaves the state unchanged.
C13_UnsupportedMessage ==
    [][msg'.kind \notin SupportedKinds =>
        /\ err' = "NotImplementedError"
        /\ outbound' = <<>>
        /\ game_state' = game_state]_vars

\* C13 witness: a DummyMessage has been refused after the state had changed
C13_Witness ==
    /\ msg.kind = "DummyMessage"
    /\ err = "NotImplementedError"
    /\ game_state.phase # CONSTRUCTION

\* the four conditions under which an UpdateBidRequest is specified to succeed
BidAccepted(gs, m) ==
    /\ m.asset_id \in DOMAIN gs.assets
    /\ gs.assets[m.asset_id].owner_player = m.player_id
    /\ game_settings.min_bid_price <= m.bid_price
    /\ m.bid_price <= game_settings.max_bid_price
    /\ validate_bid_for_asset(gs, get_all_for_player(gs.assets, m.player_id, TRUE),
                              m.asset_id, m.bid_price, gs.players[m.player_id].money)

\* C14: UpdateBidRequest(player, asset, bid) succeeds iff the asset exists, the
\* player owns it, min_bid_price <= bid <= max_bid_price and
\* ValidateBidForAsset over the player's active assets returns true; on
\* success the asset's bid_price becomes bid and nothing else changes (so a
\* player with money M owning one freezer of power E succeeds with an in-range
\* bid b iff M - E*b >= 0).
C14_UpdateBid ==
    [][msg'.kind = "UpdateBidRequest" =>
        /\ err' = "none"
        /\ Len(outbound') = 1
        /\ outbound'[1].kind = "UpdateBidResponse"
        /\ outbound'[1].success = BidAccepted(game_state, msg')
        /\ game_state' =
              IF BidAccepted(game_state, msg')
              THEN [game_state EXCEPT !.assets[msg'.asset_id].bid_price = msg'.bid_price]
              ELSE game_state]_vars

\* sign(a) * bid(a) * power_expected(a) of asset a when new_bid is offered for
\* asset v: zero for an asset outside player_assets
BidTerm(gs, player_assets, a, v, new_bid) ==
    IF a \notin player_assets THEN 0
    ELSE (IF gs.assets[a].asset_type = GENERATOR THEN 1 ELSE -1)
            * (IF a = v THEN new_bid ELSE gs.assets[a].bid_price)
            * gs.assets[a].power_expected

\* C15: ValidateBidForAsset(player_assets, asset, new_bid, money) is true
\* exactly when money + sum over a in player_assets of
\* sign(a) * bid(a) * power_expected(a) >= 0, with sign(a) = +1 for a generator
\* and -1 for a load taken per asset, and bid(a) = new_bid for the validated
\* asset and a.bid_price for the others.
C15_ValidateBidForAsset ==
    \A p \in Humans, v \in AssetIds, new_bid \in BidInputs :
        LET player_assets == get_all_for_player(game_state.assets, p, TRUE)
            money == game_state.players[p].money
        IN  validate_bid_for_asset(game_state, player_assets, v, new_bid, money)
            <=> (money + BidTerm(game_state, player_assets, AssetOrder[1], v, new_bid)
                       + BidTerm(game_state, player_assets, AssetOrder[2], v, new_bid)
                       + BidTerm(game_state, player_assets, AssetOrder[3], v, new_bid) >= 0)

\* C15 witness: a player who owns an active load and an active generator has
\* had a bid for the load passed on to validate_bid_for_asset, which held thanks
\* to the generator's income
C15_Witness ==
    /\ msg.kind = "UpdateBidRequest"
    /\ msg.asset_id \in DOMAIN game_state.assets
    /\ LET player_assets == get_all_for_player(game_state.assets, msg.player_id, TRUE)
           money == game_state.players[msg.player_id].money
       IN  /\ msg.asset_id \in player_assets
           /\ game_state.assets[msg.asset_id].asset_type = LOAD
           /\ \E g \in player_assets : game_state.assets[g].asset_type = GENERATOR
           /\ validate_bid_for_asset(game_state, player_assets, msg.asset_id,
                                     msg.bid_price, money)
           /\ money - msg.bid_price * game_state.assets[msg.asset_id].power_expected < 0

HealthMatchesActivity(item) == (item.health = 0) <=> ~item.is_active

\* C16: after any melt or wear operation (melt_ice_creams,
\* wear_congested_transmission, wear_non_freezer_assets), and hence after every
\* DA_AUCTION conclusion, every asset and every line has health = 0 if and
\* only if is_active = false.
C16_HealthIffInactive ==
    [][(msg'.kind = "ConcludePhase" /\ msg'.phase = DA_AUCTION /\ err' = "none") =>
        /\ \A a \in DOMAIN game_state'.assets :
               HealthMatchesActivity(game_state'.assets[a])
        /\ \A t \in DOMAIN game_state'.transmission :
               HealthMatchesActivity(game_state'.transmission[t])]_vars

\* the messages of out about item id (field key), one per position
MessagesAbout(out, key, id) == {i \in DOMAIN out : out[i][key] = id}

\* C17: melt_ice_creams decrements by 1 the health of exactly the freezers with
\* health > 0 and dispatch 0 (a freezer with positive dispatch below
\* power_expected is not melted), sets is_active = false on those reaching
\* health 0, leaves all other assets and the rest of the state unchanged, and
\* emits exactly one IceCreamMeltedMessage per melted freezer, addressed to its
\* owner.
C17_MeltIceCreams ==
    [][msg'.kind = "melt_ice_creams" =>
        LET assets == game_state.assets
            dispatch == game_state.market_coupling_result.assets_dispatch
            melted == {a \in DOMAIN assets :
                          assets[a].is_freezer /\ assets[a].health > 0 /\ dispatch[a] = 0}
        IN  /\ err' = "none"
            /\ game_state' = [game_state EXCEPT !.assets = game_state'.assets]
            /\ DOMAIN game_state'.assets = DOMAIN assets
            /\ \A a \in DOMAIN assets :
                   game_state'.assets[a] =
                       IF a \notin melted THEN assets[a]
                       ELSE [assets[a] EXCEPT
                                !.health = @ - 1,
                                !.is_active = IF assets[a].health = 1 THEN FALSE ELSE @]
            /\ Len(outbound') = Cardinality(melted)
            /\ \A i \in DOMAIN outbound' :
                   /\ outbound'[i].kind = "IceCreamMeltedMessage"
                   /\ outbound'[i].asset_id \in melted
                   /\ outbound'[i].player_id = assets[outbound'[i].asset_id].owner_player
            /\ \A a \in melted :
                   Cardinality(MessagesAbout(outbound', "asset_id", a)) = 1]_vars

\* C18: wear_congested_transmission decrements by 1 the health of exactly the
\* lines that are active, have health > 0 and whose absolute flow equals
\* capacity, in either flow direction (flow = +capacity or flow = -capacity);
\* a line reaching health 0 becomes inactive; all other lines and the rest of
\* the state are unchanged; exactly one TransmissionWornMessage is emitted per
\* worn line.
C18_WearCongestedTransmission ==
    [][msg'.kind = "wear_congested_transmission" =>
        LET lines == game_state.transmission
            flows == game_state.market_coupling_result.transmission_flows
            worn == {t \in DOMAIN lines :
                        /\ lines[t].is_active
                        /\ lines[t].health > 0
                        /\ Abs(flows[t]) = lines[t].capacity}
        IN  /\ err' = "none"
            /\ game_state' = [game_state EXCEPT !.transmission = game_state'.transmission]
            /\ DOMAIN game_state'.transmission = DOMAIN lines
            /\ \A t \in DOMAIN lines :
                   game_state'.transmission[t] =
                       IF t \notin worn THEN lines[t]
                       ELSE [lines[t] EXCEPT
                                !.health = @ - 1,
                                !.is_active = IF lines[t].health = 1 THEN FALSE ELSE @]
            /\ Len(outbound') = Cardinality(worn)
            /\ \A i \in DOMAIN outbound' :
                   /\ outbound'[i].kind = "TransmissionWornMessage"
                   /\ outbound'[i].transmission_id \in worn
            /\ \A t \in worn :
                   Cardinality(MessagesAbout(outbound', "transmission_id", t)) = 1]_vars

\* the living humans whose freezers have no ice cream left
HumansOutOfIceCream(gs) ==
    {p \in Humans :
        /\ gs.players[p].still_alive
        /\ \A a \in DOMAIN gs.assets :
               (gs.assets[a].owner_player = p /\ gs.assets[a].is_freezer)
                   => gs.assets[a].health = 0}

\* eliminate_players sets still_alive = false for exactly the living humans
\* whose freezers have total remaining health 0, leaves every other player
\* and the rest of the state unchanged, and emits exactly one
\* PlayerEliminatedMessage per eliminated player, addressed to that player.
EliminatePlayersRule ==
    msg'.kind = "eliminate_players" =>
        LET eliminated == HumansOutOfIceCream(game_state)
        IN  /\ err' = "none"
            /\ game_state' = [game_state EXCEPT !.players = game_state'.players]
            /\ \A p \in DOMAIN game_state.players :
                   game_state'.players[p] =
                       IF p \in eliminated
                       THEN [game_state.players[p] EXCEPT !.still_alive = FALSE]
                       ELSE game_state.players[p]
            /\ Len(outbound') = Cardinality(eliminated)
            /\ \A i \in DOMAIN outbound' :
                   /\ outbound'[i].kind = "PlayerEliminatedMessage"
                   /\ outbound'[i].player_id \in eliminated
            /\ \A p \in eliminated :
                   Cardinality(MessagesAbout(outbound', "player_id", p)) = 1

\* when DA_AUCTION is concluded with a player whose only freezer has health 1
\* and zero dispatch, that player ends the conclusion with still_alive = false
EliminatedByConclusion ==
    (msg'.kind = "ConcludePhase" /\ msg'.phase = DA_AUCTION /\ err' = "none") =>
        \A p \in Humans :
            LET freezers == {a \in DOMAIN game_state.assets :
                                /\ game_state.assets[a].owner_player = p
                                /\ game_state.assets[a].is_freezer}
            IN  (/\ game_state.players[p].still_alive
                 /\ Cardinality(freezers) = 1
                 /\ \A a \in freezers :
                        /\ game_state.assets[a].health = 1
                        /\ game_state'.market_coupling_result.assets_dispatch[a] = 0)
                    => ~game_state'.players[p].still_alive

\* the rule of eliminate_players on its own, over the Referee's input states
EliminatePlayersAlone == [][EliminatePlayersRule]_vars

\* C19: eliminate_players sets still_alive = false for exactly the living
\* humans whose freezers have total remaining health 0, leaves every other
\* player unchanged and emits exactly one PlayerEliminatedMessage per
\* eliminated player, addressed to that player; when DA_AUCTION is concluded
\* with a player whose only freezer has health 1 and zero dispatch, that
\* player ends the conclusion with still_alive = false.
C19_EliminatePlayers ==
    [][EliminatePlayersRule /\ EliminatedByConclusion]_vars

\* C20: check_game_over leaves the state unchanged and emits one
\* GameOverMessage per human (living or eliminated) naming the single living
\* human as winner when exactly one human is alive, one GameOverMessage per
\* human with winner none when no human is alive, and no message when two or
\* more humans are alive; it never addresses a message to the NPC.
C20_CheckGameOver ==
    [][msg'.kind = "check_game_over" =>
        LET alive == {p \in Humans : game_state.players[p].still_alive}
            winners == IF alive = {} THEN {NoWinner} ELSE alive
        IN  /\ err' = "none"
            /\ game_state' = game_state
            /\ \A i \in DOMAIN outbound' :
                   /\ outbound'[i].kind = "GameOverMessage"
                   /\ outbound'[i].player_id \in Humans
                   /\ outbound'[i].player_id # NPC
                   /\ outbound'[i].winner_id \in winners
            /\ IF Cardinality(alive) >= 2
               THEN outbound' = <<>>
               ELSE /\ Len(outbound') = Cardinality(Humans)
                    /\ \A h \in Humans :
                           Cardinality(MessagesAbout(outbound', "player_id", h)) = 1]_vars

\* C20 witness: check_game_over has run with player 1 eliminated and player 2
\* alive, and has told both that player 2 has won
C20_Witness ==
    /\ msg.kind = "check_game_over"
    /\ ~game_state.players[HumanOrder[1]].still_alive
    /\ game_state.players[HumanOrder[2]].still_alive
    /\ outbound = <<GameOverMessage(HumanOrder[1], HumanOrder[2]),
                    GameOverMessage(HumanOrder[2], HumanOrder[2])>>

\* C21: deactivate_loads_of_players_in_debt sets is_active = false on every
\* load (freezers included) owned by a human with money < 0, changes no asset
\* of a player with money >= 0 and no generator, leaves the rest of the state
\* unchanged, and emits exactly one LoadsDeactivatedMessage per human in debt,
\* listing that player's load ids.
C21_DeactivateLoads ==
    [][msg'.kind = "deactivate_loads_of_players_in_debt" =>
        LET assets == game_state.assets
            in_debt == {p \in Humans : game_state.players[p].money < 0}
            loads(p) == {a \in DOMAIN assets :
                            assets[a].owner_player = p /\ assets[a].asset_type = LOAD}
        IN  /\ err' = "none"
            /\ game_state' = [game_state EXCEPT !.assets = game_state'.assets]
            /\ DOMAIN game_state'.assets = DOMAIN assets
            /\ \A a \in DOMAIN assets :
                   game_state'.assets[a] =
                       IF assets[a].owner_player \in in_debt /\ assets[a].asset_type = LOAD
                       THEN [assets[a] EXCEPT !.is_active = FALSE]
                       ELSE assets[a]
            /\ Len(outbound') = Cardinality(in_debt)
            /\ \A i \in DOMAIN outbound' :
                   /\ outbound'[i].kind = "LoadsDeactivatedMessage"
                   /\ outbound'[i].player_id \in in_debt
                   /\ Range(outbound'[i].asset_ids) = loads(outbound'[i].player_id)
                   /\ Len(outbound'[i].asset_ids)
                          = Cardinality(loads(outbound'[i].player_id))
            /\ \A p \in in_debt :
                   Cardinality(MessagesAbout(outbound', "player_id", p)) = 1]_vars

\* C21 witness: the rule has run with player 1 in debt, owning a freezer and an
\* active generator, and player 2 at money 0: freezer 1 is off, the generator
\* and freezer 2 are on, and player 1 alone got a message
C21_Witness ==
    /\ msg.kind = "deactivate_loads_of_players_in_debt"
    /\ game_state.players[HumanOrder[1]].money < 0
    /\ game_state.players[HumanOrder[2]].money = 0
    /\ game_state.players[NPC].money < 0
    /\ \E g \in DOMAIN game_state.assets :
           /\ game_state.assets[g].asset_type = GENERATOR
           /\ game_state.assets[g].owner_player = HumanOrder[1]
           /\ game_state.assets[g].is_active
    /\ ~game_state.assets[HumanOrder[1]].is_active
    /\ game_state.assets[HumanOrder[1]].health = 2
    /\ game_state.assets[HumanOrder[2]].is_active
    /\ outbound = <<LoadsDeactivatedMessage(HumanOrder[1], <<HumanOrder[1]>>)>>

\* the cashflow of player p for market result mcr: over the active assets of
\* p, loads of humans in debt counting as inactive, and the active lines of p
ExpectedCashflow(gs, mcr, p) ==
    LET in_debt == {h \in Humans : gs.players[h].money < 0}
        mine == {a \in DOMAIN gs.assets :
                    /\ gs.assets[a].owner_player = p
                    /\ gs.assets[a].is_active
                    /\ ~(p \in in_debt /\ gs.assets[a].asset_type = LOAD)}
        lines == {t \in DOMAIN gs.transmission :
                     gs.transmission[t].owner_player = p /\ gs.transmission[t].is_active}
        asset_term == [a \in mine |->
            (IF gs.assets[a].asset_type = GENERATOR THEN 1 ELSE -1)
                * (IF mcr.assets_dispatch[a] < 0 THEN -mcr.assets_dispatch[a]
                   ELSE mcr.assets_dispatch[a])
                * (mcr.bus_prices[gs.assets[a].bus] - gs.assets[a].marginal_cost)
            - gs.assets[a].fixed_operating_cost]
        line_term == [t \in lines |->
            mcr.transmission_flows[t]
                * (mcr.bus_prices[gs.transmission[t].bus1]
                       - mcr.bus_prices[gs.transmission[t].bus2])]
    IN  Sum(asset_term, mine) + Sum(line_term, lines)

\* C22: after a DA_AUCTION conclusion every player's money equals the money
\* before plus that player's cashflow: the sum over the player's active assets
\* of sign(a) * |dispatch[a]| * (bus_price[a.bus] - a.marginal_cost)
\* - a.fixed_operating_cost, plus the sum over the player's active lines of
\* flow[l] * (bus_price[l.bus1] - bus_price[l.bus2]), evaluated on the state
\* after debt deactivation.
C22_MoneyAfterAuction ==
    [][(msg'.kind = "ConcludePhase" /\ msg'.phase = DA_AUCTION /\ err' = "none") =>
        \A p \in DOMAIN game_state.players :
            game_state'.players[p].money
                = game_state.players[p].money
                    + ExpectedCashflow(game_state, game_state'.market_coupling_result, p)]_vars

\* C22 witness: an auction has been concluded in which a human owned a
\* generator that ran and a congested line with a price spread, while the
\* other human was in debt and had a load switched off
C22_Witness ==
    /\ msg.kind = "ConcludePhase" /\ msg.phase = DA_AUCTION /\ err = "none"
    /\ LET mcr == game_state.market_coupling_result
       IN  /\ \E g \in DOMAIN game_state.assets :
                  /\ game_state.assets[g].asset_type = GENERATOR
                  /\ game_state.assets[g].owner_player = HumanOrder[1]
                  /\ mcr.assets_dispatch[g] > 0
           /\ \E t \in DOMAIN game_state.transmission :
                  /\ game_state.transmission[t].owner_player = HumanOrder[1]
                  /\ mcr.transmission_flows[t] < 0
                  /\ mcr.bus_prices[game_state.transmission[t].bus1]
                         # mcr.bus_prices[game_state.transmission[t].bus2]
           /\ mcr.assets_dispatch[HumanOrder[1]] > 0
    /\ game_state.players[HumanOrder[2]].money < 0
    /\ game_state.assets[HumanOrder[2]].health > 0
    /\ ~game_state.assets[HumanOrder[2]].is_active

\* C23: when the solver returns a status other than optimal while a DA_AUCTION
\* conclusion is being handled, OptimizationError is raised, no outbound
\* message is produced, and the stored game state is the one from before the
\* triggering message: neither the debt deactivation nor the last EndTurn is
\* applied.  A conclusion that does not raise has recorded a market result.
C23_SolverFailure ==
    [][(msg'.kind = "ConcludePhase" /\ msg'.phase = DA_AUCTION) =>
        \/ /\ err' = "none"
           /\ game_state'.market_coupling_result.present
        \/ /\ err' = "OptimizationError"
           /\ outbound' = <<>>
           /\ stored' = stored
           /\ game_state' = stored
           /\ ~NoPending =>
                  /\ msg.kind = "EndTurn"
                  /\ stored.players[msg.player_id].is_having_turn
                  /\ ~game_state.players[msg.player_id].is_having_turn]_vars

\* C23 witness: the solver has failed in the conclusion that the last EndTurn
\* of a game in DA_AUCTION set off; the stored state still has player 1 playing and the load of
\* player 2, who is in debt, switched on
C23_Witness ==
    /\ msg.kind = "ConcludePhase" /\ msg.phase = DA_AUCTION
    /\ err = "OptimizationError"
    /\ outbound = <<>>
    /\ stored.phase = DA_AUCTION
    /\ stored.players[HumanOrder[1]].is_having_turn
    /\ stored.players[HumanOrder[2]].money < 0
    /\ stored.assets[HumanOrder[2]].is_active
    /\ game_state = stored

\* C24: for every state and every external player message, the re-dispatch
\* loop of HandlePlayerMessage terminates and performs at most four phase
\* transitions within that single external call: a re-dispatched ConcludePhase
\* leaves no internal message in the outbound list, so the loop ends after one
\* pass, in which the phase advanced once or, on an exception, not at all.
C24_RedispatchTerminates ==
    [][~NoPending =>
        /\ NoPending'
        /\ Len(PendingConclusions) = 1
        /\ \/ err' = "none" /\ game_state'.phase = get_next(game_state.phase)
           \/ err' # "none" /\ game_state'.phase = game_state.phase]_vars

\* C24 witness: the last EndTurn of a game in DA_AUCTION has set off the
\* conclusion, which has been re-dispatched: the game is in CONSTRUCTION of
\* the next round, persisted, with nothing left to re-dispatch
C24_Witness ==
    /\ msg.kind = "ConcludePhase" /\ msg.phase = DA_AUCTION
    /\ err = "none"
    /\ NoPending
    /\ game_state.phase = CONSTRUCTION
    /\ game_state.round = 2
    /\ stored = game_state

GameUpdatesFor(out, p, gs) ==
    {i \in DOMAIN out :
        /\ out[i].kind = "GameUpdate"
        /\ out[i].player_id = p
        /\ out[i].game_state = gs}

\* C25: every handled ConcludePhase emits exactly one GameUpdate per player
\* carrying the new state, and when the conclusion leaves at most one human
\* alive the outbound list also contains the GameOverMessage
C25_ConcludePhaseEmitsGameUpdate ==
    [][(msg'.kind = "ConcludePhase" /\ err' = "none") =>
        /\ \A p \in Humans :
              Cardinality(GameUpdatesFor(outbound', p, game_state')) = 1
        /\ Len(only_alive_human_players(game_state'.players)) <= 1 =>
              \E i \in DOMAIN outbound' : outbound'[i].kind = "GameOverMessage"]_vars

EngineMessageKinds ==
    {"ConcludePhase", "UpdateBidRequest", "OperateLineRequest", "BuyRequest", "EndTurn"}

\* C26: no message in the outbound list of an Engine.handle_message call is
\* addressed to the NPC, wear messages about NPC-owned assets and lines and
\* auction-cleared messages included
C26_NoMessageToNpc ==
    msg.kind \in EngineMessageKinds =>
        \A i \in DOMAIN outbound :
            outbound[i].kind # "ConcludePhase" => outbound[i].player_id # NPC

\* C27: Engine.handle_message never modifies the state it is given: read again
\* after the call, every field of the input state has the value it had before,
\* the is_active of a line after a successful open or close included
C27_InputStateUnchanged ==
    [][msg'.kind \in EngineMessageKinds =>
        input_after_handle_message(game_state, msg') = game_state]_vars

\* every open session is the one registered under its (game_id, player_id)
OpenSessionsRegistered ==
    \A s \in SessionIds :
        server.websocket[s] = "open" => server.active_connections[SessionPlayer[s]] = s

\* a session that ends takes only its own entry out of the registry
DisconnectRemovesOwnEntry ==
    \A s \in SessionIds :
        (server.websocket[s] # "closed" /\ server'.websocket[s] = "closed") =>
            \A p \in Humans :
                server'.active_connections[p] # server.active_connections[p] =>
                    server.active_connections[p] = s

\* C28: at every moment each open session is registered under its (game_id,
\* player_id), so that it is the one the messages for that pair are sent to,
\* and a disconnect removes only the entry of the disconnecting session, also
\* when a second session was opened for the same pair in the meantime
C28_SessionRegistry ==
    [][OpenSessionsRegistered' /\ DisconnectRemovesOwnEntry]_vars

RECURSIVE Replay(_, _)
Replay(gs, handled) ==
    IF handled = <<>> THEN gs
    ELSE LET first == handle_message(gs, Head(handled).m, OracleNotRun)
             internal == SelectSeq(first.msgs, LAMBDA x : x.kind = "ConcludePhase")
             last == IF first.err = "none" /\ internal # <<>>
                     THEN handle_message(first.gs, Head(internal), Head(handled).oracle)
                     ELSE first
         IN  Replay(IF last.err = "none" THEN last.gs ELSE gs, Tail(handled))

ErrorFrames(frames) == {i \in DOMAIN frames : frames[i].message.kind = "error"}

\* C31: a client frame that is not valid JSON, or whose type is not one the
\* server decodes into an engine request (operate_asset_request is among the
\* five types to decode), is answered with one error frame on the session
\* that sent it and changes no game state
C31_UndecodedFrameAnswered ==
    [][msg'.kind = "frame" =>
        /\ stored' = stored
        /\ game_state' = game_state
        /\ msg'.type # "operate_asset_request"
        /\ Cardinality(ErrorFrames(server'.transport[msg'.websocket])) =
              Cardinality(ErrorFrames(server.transport[msg'.websocket])) + 1]_vars

\* C32: for every non-empty roster create_new_game returns a state in phase
\* CONSTRUCTION and round 1 without a market result, with one human player
\* per name who has initial_funds of money, is alive and has the turn, and
\* with exactly one NPC player, who does not have the turn
C32_NewGameState ==
    [][msg'.kind = "new_game" =>
        /\ err' = "none"
        /\ game_state'.phase = CONSTRUCTION
        /\ game_state'.round = 1
        /\ ~game_state'.market_coupling_result.present
        /\ DOMAIN game_state'.players = (1..msg'.n_players) \cup {NPC}
        /\ \A p \in 1..msg'.n_players :
              /\ game_state'.players[p].money = game_settings.initial_funds
              /\ game_state'.players[p].still_alive
              /\ game_state'.players[p].is_having_turn
        /\ ~game_state'.players[NPC].is_having_turn]_vars

\* the freezers of a player in a created state
freezers_of(gs, p) ==
    {a \in DOMAIN gs.assets : gs.assets[a].is_freezer /\ gs.assets[a].owner_player = p}

\* C33: in the state create_new_game returns, every human player owns exactly
\* one bus and exactly one freezer, the freezer is a LOAD at that player's bus
\* with health n_init_ice_cream, and the NPC owns no freezer
C33_OneBusOneFreezer ==
    [][msg'.kind = "new_game" /\ err' = "none" =>
        /\ \A p \in 1..msg'.n_players :
              /\ Cardinality({b \in DOMAIN game_state'.buses :
                                 game_state'.buses[b].player_id = p}) = 1
              /\ Cardinality(freezers_of(game_state', p)) = 1
              /\ \A a \in freezers_of(game_state', p) :
                    /\ game_state'.assets[a].asset_type = LOAD
                    /\ game_state'.buses[game_state'.assets[a].bus].player_id = p
                    /\ game_state'.assets[a].health = game_settings.n_init_ice_cream
        /\ freezers_of(game_state', NPC) = {}]_vars

\* C33 witness: a game for three names on five buses was created, and the
\* NPC generator shares the bus of player 2 with that player's freezer
C33_Witness ==
    /\ msg.kind = "new_game"
    /\ err = "none"
    /\ msg.n_players = 3
    /\ msg.n_buses = 5
    /\ Cardinality({a \in DOMAIN game_state.assets : game_state.assets[a].bus = 2}) = 2
    /\ freezers_of(game_state, 2) # {}

\* C34: for every number of humans >= 1 and every n_buses >= humans + 1,
\* create_new_game succeeds, and in the result every bus is an endpoint of a
\* line, every line joins two distinct buses with bus1 < bus2, and no bus
\* has more incident lines than its max_lines
C34_ConnectedWithinSockets ==
    [][msg'.kind = "new_game" /\ msg'.n_players >= 1
          /\ msg'.n_buses >= msg'.n_players + 1 =>
        /\ err' = "none"
        /\ \A b \in DOMAIN game_state'.buses :
              /\ used_sockets(game_state'.transmission, b) >= 1
              /\ used_sockets(game_state'.transmission, b) <= game_state'.buses[b].max_lines
        /\ \A k \in DOMAIN game_state'.transmission :
              game_state'.transmission[k].bus1 < game_state'.transmission[k].bus2]_vars

\* C35: two runs of create_new_game with the same game_id, settings and
\* roster produce equal states: whatever the call can return for the
\* arguments of a run is the state the run returned
C35_CreationDeterministic ==
    [][msg'.kind = "new_game" =>
        \A g \in NewGameOutcomes(msg') :
            /\ g.raised = err'
            /\ g.raised = "none" => g.state = game_state']_vars

\* C36: in every reachable state an asset or line with health = 0 is not
\* active: once worn out or melted to zero it is never active again
C36_ZeroHealthInactive ==
    /\ \A a \in DOMAIN game_state.assets :
          game_state.assets[a].health = 0 => ~game_state.assets[a].is_active
    /\ \A t \in DOMAIN game_state.transmission :
          game_state.transmission[t].health = 0 => ~game_state.transmission[t].is_active

\* the ConcludePhase messages of an outbound list
Conclusions(out) == SelectSeq(out, LAMBDA x : x.kind = "ConcludePhase")

\* C37: handling a ConcludePhase never puts another ConcludePhase in its
\* outbound list, so one external player message causes at most one phase
\* transition, and only EndTurn can cause one: the phase changes only while a
\* ConcludePhase is handled, and only an EndTurn emits one, a single one
C37_OnePhaseTransition ==
    [][/\ msg'.kind = "ConcludePhase" => Conclusions(outbound') = <<>>
       /\ game_state'.phase # game_state.phase => msg'.kind = "ConcludePhase"
       /\ Conclusions(outbound') # <<>> =>
             /\ msg'.kind = "EndTurn"
             /\ Len(Conclusions(outbound')) = 1]_vars

\* C37 witness: the ConcludePhase that the last EndTurn of CONSTRUCTION
\* emitted has been handled; the game is in SNEAKY_TRICKS with every human
\* having the turn again, and nothing is left to re-dispatch
C37_Witness ==
    /\ msg.kind = "ConcludePhase"
    /\ msg.phase = CONSTRUCTION
    /\ err = "none"
    /\ game_state.phase = SNEAKY_TRICKS
    /\ budget = MaxSteps - 3
    /\ \A p \in Humans : game_state.players[p].is_having_turn
    /\ Conclusions(outbound) = <<>>

\* the humans of a player repository who are alive
LivingHumans(players) == {p \in DOMAIN players : p # NPC /\ players[p].still_alive}

WithPurchaseOf(gs, new, p, purchase_id) ==
    LET paid == [gs EXCEPT !.players[p].money = new.players[p].money]
        id == purchase_id.id
    IN  IF purchase_id.type = "asset"
        THEN [paid EXCEPT !.assets[id].owner_player = new.assets[id].owner_player,
                          !.assets[id].is_for_sale = new.assets[id].is_for_sale]
        ELSE [paid EXCEPT !.transmission[id].owner_player = new.transmission[id].owner_player,
                          !.transmission[id].is_for_sale = new.transmission[id].is_for_sale]

\* C39: a successful BuyRequest changes only the buyer's money and the
\* purchased item's owner_player and is_for_sale: the previous owner's money
\* and every other player's money are unchanged (the seller is not
\* credited), and no other asset, line, turn flag, phase or round changes
C39_BuyChangesOnlyBuyerAndItem ==
    [][(msg'.kind = "BuyRequest" /\ BuySucceeded(outbound')) =>
        /\ game_state' = WithPurchaseOf(game_state, game_state', msg'.player_id,
                                        msg'.purchase_id)
        /\ \A q \in PlayerIds \ {msg'.player_id} :
              game_state'.players[q].money = game_state.players[q].money
        /\ LET seller == PurchaseItem(game_state, msg'.purchase_id).owner_player
           IN  seller # msg'.player_id =>
                  game_state'.players[seller].money = game_state.players[seller].money]_vars

\* C39 witness: a human has bought the generator of the NPC at its positive
\* price, the NPC's money is what it was at the start, and the other human
\* still has its initial funds and its turn
C39_Witness ==
    /\ msg.kind = "BuyRequest"
    /\ msg.purchase_id.type = "asset"
    /\ BuySucceeded(outbound)
    /\ game_state.assets[msg.purchase_id.id].owner_player = msg.player_id
    /\ game_state.assets[msg.purchase_id.id].minimum_acquisition_price > 0
    /\ game_state.players[NPC].money = 0
    /\ \E q \in Humans \ {msg.player_id} :
          /\ game_state.players[q].money = game_settings.initial_funds
          /\ game_state.players[q].is_having_turn

\* item id of a repository was bought in the step: a BuyRequest naming it
\* succeeded
BoughtInStep(m, out, type, id) ==
    /\ m.kind = "BuyRequest"
    /\ BuySucceeded(out)
    /\ m.purchase_id.type = type
    /\ m.purchase_id.id = id

\* is_for_sale of no item turns true, an owner changes only by a purchase of
\* the item, and what is bought was for sale and no longer is
SoldOnce(before, after, type, m, out) ==
    /\ DOMAIN after = DOMAIN before
    /\ \A id \in DOMAIN before :
          /\ after[id].is_for_sale => before[id].is_for_sale
          /\ after[id].owner_player # before[id].owner_player =>
                BoughtInStep(m, out, type, id)
          /\ BoughtInStep(m, out, type, id) =>
                /\ before[id].is_for_sale
                /\ ~after[id].is_for_sale

\* C40: over any sequence of messages is_for_sale of an asset or line never
\* changes from false to true and owner_player changes only by a successful
\* BuyRequest naming that item, so each asset and each line is successfully
\* bought at most once
C40_BoughtAtMostOnce ==
    [][/\ SoldOnce(game_state.assets, game_state'.assets, "asset", msg', outbound')
       /\ SoldOnce(game_state.transmission, game_state'.transmission, "transmission",
                   msg', outbound')]_vars

\* C40 witness: a player asked for a line that the other human had bought
\* before, and was refused; the line still belongs to the first buyer
C40_Witness ==
    /\ msg.kind = "BuyRequest"
    /\ msg.purchase_id.type = "transmission"
    /\ msg.purchase_id.id \in DOMAIN game_state.transmission
    /\ ~BuySucceeded(outbound)
    /\ game_state.transmission[msg.purchase_id.id].owner_player \in Humans \ {msg.player_id}
    /\ ~game_state.transmission[msg.purchase_id.id].is_for_sale
    /\ game_state.players[msg.player_id].money
          >= game_state.transmission[msg.purchase_id.id].minimum_acquisition_price

====
